---- MODULE Spec2Model ----
(***************************************************************************)
(* BingeWatcher (src/SerienJunkie/s.toBot.py): the watch-progress store    *)
(* (progress.json) and the playback settings (settings.json and the        *)
(* in-page override bw_settings).                                          *)
(*                                                                         *)
(* A file on disk is a record [kind, data]:                                *)
(*   kind = "absent"      the file does not exist                          *)
(*          "unreadable"  it exists but open() raises OSError              *)
(*          "corrupt"     its text is not valid JSON (also: empty/partial) *)
(*          "nonobj"      valid JSON that is not an object                 *)
(*          "obj"         a JSON object, held in data                      *)
(* A progress object maps series keys to entries [dict, f]: dict says      *)
(* whether the JSON value is an object, f maps its field names to values.  *)
(***************************************************************************)
EXTENDS Integers, Sequences, FiniteSets, TLC

VARIABLES
    file,          \* contents of PROGRESS_DB_FILE (progress.json)
    backup,        \* contents of the sibling progress.json.backup
    now,           \* the wall clock read by time.time()
    ops,           \* number of operations called so far
    last,          \* history: the last operation, its arguments and its result
    settingsFile,  \* contents of SETTINGS_DB_FILE (settings.json)
    lsSettings,    \* localStorage 'bw_settings' as read_settings returns it
    trace,         \* history: the calls made so far, when they are recorded
    page,          \* the browser page: its URL, localStorage flags and cookies
    video,         \* the <video> element of the page, when there is one
    sess,          \* main and play_episodes_loop: position in the code and locals
    obs            \* history: what the polls have observed of each posted flag

vars == <<file, backup, now, ops, last, settingsFile, lsSettings, trace,
          page, video, sess, obs>>

loopVars == <<page, video, sess, obs>>

storeVars == <<file, backup, now>>

settingsVars == <<settingsFile, lsSettings>>

-----------------------------------------------------------------------------
(* Bounds of the model *)

MaxOps == 2

MaxTime == 1

(* the user's and the site's events in a behaviour of the loops *)
MaxEnv == 3

(* the last episode the play loop may move on to *)
MaxEpisode == 5

(* Program constants *)

INTRO_SKIP_SECONDS == 80

-----------------------------------------------------------------------------
(* Finite maps (Python dicts) *)

EmptyMap == <<>>

Merge(e, u) == [k \in (DOMAIN e) \cup (DOMAIN u) |-> IF k \in DOMAIN u THEN u[k] ELSE e[k]]

Put(m, k, v) == [x \in (DOMAIN m) \cup {k} |-> IF x = k THEN v ELSE m[x]]

Remove(m, k) == [x \in (DOMAIN m) \ {k} |-> m[x]]

(* db.get(series, {}) when it is an object; entries are [dict, f] *)
FieldsOf(db, series) ==
    IF series \in DOMAIN db /\ db[series].dict THEN db[series].f ELSE EmptyMap

(* max(0, x) left out *)
Max0_NoClamp(x) == x

Min(a, b) == IF a < b THEN a ELSE b

Max0(x) == IF x < 0 THEN 0 ELSE x

-----------------------------------------------------------------------------
(* Files *)

FAbsent == [kind |-> "absent", data |-> EmptyMap]

FUnreadable == [kind |-> "unreadable", data |-> EmptyMap]

FCorrupt == [kind |-> "corrupt", data |-> EmptyMap]

FNonObj == [kind |-> "nonobj", data |-> EmptyMap]

FObj(d) == [kind |-> "obj", data |-> d]

DictEntry(f) == [dict |-> TRUE, f |-> f]

ScalarEntry == [dict |-> FALSE, f |-> EmptyMap]

(* open(path, "r") followed by json.load: the exception raised, or the value *)
ReadJson(f) ==
    CASE f.kind = "unreadable" -> [exc |-> "OSError", isDict |-> FALSE, data |-> EmptyMap]
      [] f.kind = "corrupt" -> [exc |-> "JSONDecodeError", isDict |-> FALSE, data |-> EmptyMap]
      [] f.kind = "nonobj" -> [exc |-> "none", isDict |-> FALSE, data |-> EmptyMap]
      [] OTHER -> [exc |-> "none", isDict |-> TRUE, data |-> f.data]

(* load_progress with an except clause for JSONDecodeError only *)
LoadProgress_NarrowExcept(f) ==
    IF f.kind = "absent"
    THEN [raised |-> FALSE, data |-> EmptyMap]
    ELSE LET r == ReadJson(f) IN
         IF r.exc = "JSONDecodeError" THEN [raised |-> FALSE, data |-> EmptyMap]
         ELSE IF r.exc # "none" THEN [raised |-> TRUE, data |-> EmptyMap]
         ELSE IF r.isDict THEN [raised |-> FALSE, data |-> r.data]
         ELSE [raised |-> FALSE, data |-> EmptyMap]

LoadProgress(f) ==
    IF f.kind = "absent"
    THEN [raised |-> FALSE, data |-> EmptyMap]
    ELSE LET r == ReadJson(f) IN
         IF r.exc = "JSONDecodeError" THEN [raised |-> FALSE, data |-> EmptyMap]
         ELSE IF r.exc # "none" THEN [raised |-> FALSE, data |-> EmptyMap]
         ELSE IF r.isDict THEN [raised |-> FALSE, data |-> r.data]
         ELSE [raised |-> FALSE, data |-> EmptyMap]

(* with open(path, "w") as f: json.dump(value, f): open truncates the file  *)
(* before json.dump writes; io is what the file system does ("ok",          *)
(* "openfail": open raises, "dumpfail": a write raises), serializable is    *)
(* whether json.dump can encode every value.                                *)
WriteJson(old, value, serializable, io) ==
    IF io = "openfail" THEN [file |-> old, ok |-> FALSE]
    ELSE IF io = "dumpfail" \/ ~serializable THEN [file |-> FCorrupt, ok |-> FALSE]
    ELSE [file |-> FObj(value), ok |-> TRUE]

IOOutcomes == {"ok", "openfail", "dumpfail"}

(* db.get(series, {}) if isinstance(db.get(series, {}), dict) else {} *)
ExistingEntry_Fresh(db, series) == EmptyMap

ExistingEntry(db, series) ==
    IF series \in DOMAIN db /\ db[series].dict THEN db[series].f ELSE EmptyMap

-----------------------------------------------------------------------------
(* Progress store operations, as functions of the file they find *)

Series == {"naruto", "bleach"}

Providers == {"s.to", "aniworld.to"}

(* the extra argument of save_progress: its fields, and whether json.dump   *)
(* can encode its values                                                    *)
ExtraNone == [fields |-> EmptyMap, serializable |-> TRUE]

ExtraEndSkip == [fields |-> [end_skip |-> 30], serializable |-> TRUE]

ExtraUnencodable == [fields |-> [poster |-> 0], serializable |-> FALSE]

(* the fields save_progress sets, without the position *)
SavedFields_NoPosition(season, episode, position, t, provider) ==
    [season |-> season, episode |-> episode, timestamp |-> t, provider |-> provider]

(* the fields save_progress sets, without the timestamp *)
SavedFields_NoTimestamp(season, episode, position, t, provider) ==
    [season |-> season, episode |-> episode, position |-> position,
     provider |-> provider]

(* the fields save_progress sets: int() of integer arguments, time.time() *)
SavedFields(season, episode, position, t, provider) ==
    [season |-> season, episode |-> episode, position |-> position,
     timestamp |-> t, provider |-> provider]

SaveProgressOp(f, series, season, episode, position, extra, provider, t, io) ==
    LET l == LoadProgress(f) IN
    IF l.raised THEN [file |-> f, ret |-> FALSE]
    ELSE LET db == l.data
             e0 == ExistingEntry(db, series)
             e1 == Merge(e0, SavedFields(season, episode, position, t, provider))
             e2 == IF DOMAIN extra.fields # {} THEN Merge(e1, extra.fields) ELSE e1
             db2 == Put(db, series, DictEntry(e2))
             w == WriteJson(f, db2, extra.serializable, io)
         IN [file |-> w.file, ret |-> w.ok]

(* handle_list_item_deletion without the "if name in db" guard: del raises *)
HandleListItemDeletionOp_NoGuard(f, name, io) ==
    LET l == LoadProgress(f) IN
    IF l.raised \/ name \notin DOMAIN l.data THEN [file |-> f, ret |-> FALSE]
    ELSE LET w == WriteJson(f, Remove(l.data, name), TRUE, io)
         IN [file |-> w.file, ret |-> w.ok]

HandleListItemDeletionOp(f, name, io) ==
    LET l == LoadProgress(f) IN
    IF l.raised THEN [file |-> f, ret |-> FALSE]
    ELSE IF name \in DOMAIN l.data
         THEN LET w == WriteJson(f, Remove(l.data, name), TRUE, io)
              IN [file |-> w.file, ret |-> w.ok]
         ELSE [file |-> f, ret |-> TRUE]

(* the end_seconds argument of set_intro_skip_seconds: None, or an integer *)
EndNone == [given |-> FALSE, v |-> 0]

EndArg(v) == [given |-> TRUE, v |-> v]

SetIntroSkipSecondsOp(f, series, start_seconds, end_seconds, io) ==
    LET start == Max0(start_seconds)
        end == Max0(IF end_seconds.given THEN end_seconds.v ELSE start + 60)
        l == LoadProgress(f)
    IN IF l.raised THEN [file |-> f, ret |-> FALSE]
       ELSE LET db == l.data
                e0 == ExistingEntry(db, series)
                e1 == Put(Put(e0, "intro_skip_start", start), "intro_skip_end", end)
                w == WriteJson(f, Put(db, series, DictEntry(e1)), TRUE, io)
            IN [file |-> w.file, ret |-> w.ok]

SetEndSkipSecondsOp(f, series, seconds, io) ==
    LET l == LoadProgress(f) IN
    IF l.raised THEN [file |-> f, ret |-> FALSE]
    ELSE LET db == l.data
             e1 == Put(ExistingEntry(db, series), "end_skip", Max0(seconds))
             w == WriteJson(f, Put(db, series, DictEntry(e1)), TRUE, io)
         IN [file |-> w.file, ret |-> w.ok]

(* int(load_progress().get(series, {}).get(field, default)), clamped; the  *)
(* default when the entry is not an object (.get raises, except returns it) *)
SkipField(f, series, field, default) ==
    LET db == LoadProgress(f).data IN
    IF series \notin DOMAIN db THEN Max0(default)
    ELSE IF ~db[series].dict THEN default
    ELSE IF field \in DOMAIN db[series].f THEN Max0(db[series].f[field])
    ELSE Max0(default)

GetIntroSkipSeconds(f, series) ==
    SkipField(f, series, "intro_skip_start", INTRO_SKIP_SECONDS)

GetIntroSkipEndSeconds(f, series) ==
    SkipField(f, series, "intro_skip_end", INTRO_SKIP_SECONDS + 60)

(* a getter that ignores the stored end_skip *)
GetEndSkipSeconds_Zero(f, series) == 0

GetEndSkipSeconds(f, series) == SkipField(f, series, "end_skip", 0)

(* main: the 'bw_intro_start_update' payload {series, seconds} *)
IntroStartUpdateOp(f, ser, secs_raw, io) ==
    LET secs == Max0(secs_raw)
        current_end == GetIntroSkipEndSeconds(f, ser)
    IN SetIntroSkipSecondsOp(f, ser, secs, EndArg(current_end), io)

(* main: the 'bw_intro_end_update' payload {series, seconds} *)
IntroEndUpdateOp(f, ser, secs_raw, io) ==
    LET secs == Max0(secs_raw)
        current_start == GetIntroSkipSeconds(f, ser)
    IN SetIntroSkipSecondsOp(f, ser, current_start, EndArg(secs), io)

-----------------------------------------------------------------------------
(* History of the last call *)

NoRes == [raised |-> FALSE, data |-> EmptyMap]

NoArgs == [none |-> TRUE]

(* whether the call before this one was the same operation on the same     *)
(* series, found an entry for it and returned True                         *)
Repeats(op, series) ==
    /\ last.op = op
    /\ last.series = series
    /\ last.ret
    /\ series \in DOMAIN LoadProgress(last.pre).data

(* The page's <video>: duration and currentTime in tenths of a second;    *)
(* finite is JavaScript's isFinite(v.duration)                             *)
NoVideo == [present |-> FALSE, finite |-> FALSE, duration |-> 0, cur |-> 0]

Video(duration, cur) ==
    [present |-> TRUE, finite |-> TRUE, duration |-> duration, cur |-> cur]

(* a video whose metadata has not loaded: duration is NaN *)
VideoLoading(cur) == [present |-> TRUE, finite |-> FALSE, duration |-> 0, cur |-> cur]

(* the intro-window script without the comparison against the duration *)
IntroWindowStepOp_NoDurationCheck(v, secs, secsEnd) ==
    IF ~v.present \/ ~v.finite THEN v
    ELSE IF secsEnd <= secs THEN v
    ELSE IF v.cur >= secs * 10 /\ v.cur <= secsEnd * 10
         THEN [v EXCEPT !.cur = secsEnd * 10]
         ELSE v

(* the script play_episodes_loop runs with (const_secs, const_secs_end) *)
IntroWindowStepOp(v, secs, secsEnd) ==
    IF ~v.present \/ ~v.finite THEN v
    ELSE IF secsEnd <= secs \/ secsEnd * 10 >= v.duration - 10 THEN v
    ELSE IF v.cur >= secs * 10 /\ v.cur <= secsEnd * 10
         THEN [v EXCEPT !.cur = secsEnd * 10]
         ELSE v

(* what parse_episode_info gives for the page's URL: series "" when no   *)
(* provider pattern matches, episode 0 when the URL names only a season  *)
NoUrl == [series |-> "", season |-> 0, episode |-> 0]

EpisodeUrl(series, season, episode) ==
    [series |-> series, season |-> season, episode |-> episode]

(* the start page with nothing posted: url, localStorage bw_quit,        *)
(* cookie bw_quit, bw_skip_now, bw_seriesToDelete, localStorage          *)
(* bw_series, cookie bw_series, bw_settings_update                       *)
StartPage ==
    [url |-> NoUrl, quit |-> FALSE, quitCookie |-> FALSE, skip |-> FALSE, del |-> "",
     sel |-> "", selCookie |-> "", upd |-> EmptyMap]

NoSess == [pc |-> "off"]

(* main at the top of its loop, play_episodes_loop not called yet *)
MainSess ==
    [pc |-> "main", should_quit |-> FALSE, restarts |-> 0, series |-> "", season |-> 0,
     episode |-> 0, position |-> 0, auto_skip |-> TRUE, auto_skip_end |-> FALSE,
     auto_next |-> TRUE]

NoObs ==
    [step |-> "none", from |-> NoUrl,
     seen |-> [quit |-> 0, skip |-> 0, del |-> 0, sel |-> 0, upd |-> 0],
     env |-> 0, starts |-> 0, videoSeen |-> FALSE, quitPosted |-> FALSE, tick |-> 0,
     errors |-> 0, browser |-> "up", delTaken |-> ""]

(* the browser is not part of the behaviour *)
LoopIdle ==
    /\ page = StartPage
    /\ video = NoVideo
    /\ sess = NoSess
    /\ obs = NoObs

TraceOff == [on |-> FALSE, calls |-> <<>>]

TraceOn == [on |-> TRUE, calls |-> <<>>]

(* t0 is the clock when the call was made *)
Called(op, series, args, r, io, t0, res) ==
    /\ last' = [op |-> op, series |-> series, args |-> args, pre |-> file,
                ret |-> r, io |-> io, t0 |-> t0, res |-> res,
                again |-> Repeats(op, series)]
    /\ trace' = IF trace.on
                THEN [trace EXCEPT !.calls = Append(@, [op |-> op, series |-> series,
                                                        args |-> args, ret |-> r,
                                                        t0 |-> t0])]
                ELSE trace

-----------------------------------------------------------------------------
(* Progress store: the state machine *)

NarutoEntry ==
    DictEntry([season |-> 1, episode |-> 3, position |-> 40, timestamp |-> 0,
               provider |-> "s.to", intro_skip_start |-> 5, intro_skip_end |-> 70,
               end_skip |-> 30])

BleachEntry ==
    DictEntry([season |-> 2, episode |-> 1, position |-> 0, timestamp |-> 0,
               provider |-> "aniworld.to"])

(* what may be on disk when the program starts: <<progress.json, backup>> *)
InitDisk ==
    {<<f, FAbsent>> : f \in {FAbsent, FUnreadable, FCorrupt, FNonObj, FObj(EmptyMap),
                             FObj([naruto |-> NarutoEntry]),
                             FObj([naruto |-> NarutoEntry, bleach |-> BleachEntry]),
                             FObj([naruto |-> ScalarEntry])}}
    \cup {<<FCorrupt, b>> : b \in {FCorrupt, FObj([naruto |-> NarutoEntry])}}
    \cup {<<FObj([bleach |-> BleachEntry]), FObj(EmptyMap)>>}

SeasonArgs == {1, 2}

EpisodeArgs == {1, 2}

PositionArgs == {0, 120}

StartArgs == {-5, 5, 10}

EndArgs == {EndNone, EndArg(-5), EndArg(70)}

EndSkipArgs == {-5, 0, 45}

StoreInit ==
    /\ \E d \in InitDisk : file = d[1] /\ backup = d[2]
    /\ now = 0
    /\ ops = 0
    /\ last = [op |-> "init", series |-> "", args |-> NoArgs, pre |-> file,
               ret |-> TRUE, io |-> "ok", t0 |-> 0, res |-> NoRes, again |-> FALSE]
    /\ trace = TraceOff
    /\ LoopIdle

Init ==
    /\ StoreInit
    /\ settingsFile = FAbsent
    /\ lsSettings = EmptyMap

Load ==
    /\ ops < MaxOps
    /\ Called("load", "", NoArgs, TRUE, "ok", now, LoadProgress(file))
    /\ ops' = ops + 1
    /\ UNCHANGED <<loopVars, storeVars, settingsVars>>

(* t is what time.time() returns: the clock has moved on to t since it was  *)
(* last read                                                                *)
SaveProgress(series, season, episode, position, extra, provider, t, io) ==
    /\ ops < MaxOps
    /\ LET r == SaveProgressOp(file, series, season, episode, position, extra,
                               provider, t, io)
       IN /\ file' = r.file
          /\ Called("save", series,
                    [season |-> season, episode |-> episode, position |-> position,
                     extra |-> extra, provider |-> provider], r.ret, io, t, NoRes)
    /\ now' = t
    /\ ops' = ops + 1
    /\ UNCHANGED <<loopVars, backup, settingsVars>>

HandleListItemDeletion(name, io) ==
    /\ ops < MaxOps
    /\ LET r == HandleListItemDeletionOp(file, name, io)
       IN /\ file' = r.file
          /\ Called("delete", name, NoArgs, r.ret, io, now, NoRes)
    /\ ops' = ops + 1
    /\ UNCHANGED <<loopVars, backup, now, settingsVars>>

SetIntroSkipSeconds(series, start_seconds, end_seconds, io) ==
    /\ ops < MaxOps
    /\ LET r == SetIntroSkipSecondsOp(file, series, start_seconds, end_seconds, io)
       IN /\ file' = r.file
          /\ Called("set_intro", series,
                    [start |-> start_seconds, end |-> end_seconds], r.ret, io, now, NoRes)
    /\ ops' = ops + 1
    /\ UNCHANGED <<loopVars, backup, now, settingsVars>>

SetEndSkipSeconds(series, seconds, io) ==
    /\ ops < MaxOps
    /\ LET r == SetEndSkipSecondsOp(file, series, seconds, io)
       IN /\ file' = r.file
          /\ Called("set_end", series, [seconds |-> seconds], r.ret, io, now, NoRes)
    /\ ops' = ops + 1
    /\ UNCHANGED <<loopVars, backup, now, settingsVars>>

LaterClock == (now + 1) .. MaxTime

(* write failures are drawn for one argument tuple of each operation *)
WriteFailures == {"openfail", "dumpfail"}

Next ==
    \/ Load
    \/ \E s \in Series, se \in SeasonArgs, ep \in EpisodeArgs, pos \in PositionArgs :
          SaveProgress(s, se, ep, pos, ExtraNone, "s.to", now, "ok")
    \/ \E s \in Series, t \in LaterClock :
          SaveProgress(s, 1, 2, 120, ExtraNone, "s.to", t, "ok")
    \/ \E s \in Series, x \in {ExtraEndSkip, ExtraUnencodable}, p \in Providers :
          SaveProgress(s, 1, 1, 0, x, p, now, "ok")
    \/ \E s \in Series, io \in WriteFailures :
          SaveProgress(s, 1, 1, 0, ExtraNone, "s.to", now, io)
    \/ \E s \in Series, io \in IOOutcomes : HandleListItemDeletion(s, io)
    \/ \E s \in Series, a \in StartArgs, b \in EndArgs :
          SetIntroSkipSeconds(s, a, b, "ok")
    \/ \E s \in Series, io \in WriteFailures :
          SetIntroSkipSeconds(s, 5, EndNone, io)
    \/ \E s \in Series, n \in EndSkipArgs : SetEndSkipSeconds(s, n, "ok")
    \/ \E s \in Series, io \in WriteFailures : SetEndSkipSeconds(s, 45, io)

Spec == Init /\ [][Next]_vars

-----------------------------------------------------------------------------
(* The progress store from an empty store, with the sidebar's intro updates *)
(* that main processes; the calls are recorded in trace                     *)

ProcessIntroStartUpdate(ser, secs_raw, io) ==
    /\ ops < MaxOps
    /\ LET r == IntroStartUpdateOp(file, ser, secs_raw, io)
       IN /\ file' = r.file
          /\ Called("intro_start_update", ser, [seconds |-> secs_raw], r.ret, io, now,
                    NoRes)
    /\ ops' = ops + 1
    /\ UNCHANGED <<loopVars, backup, now, settingsVars>>

ProcessIntroEndUpdate(ser, secs_raw, io) ==
    /\ ops < MaxOps
    /\ LET r == IntroEndUpdateOp(file, ser, secs_raw, io)
       IN /\ file' = r.file
          /\ Called("intro_end_update", ser, [seconds |-> secs_raw], r.ret, io, now,
                    NoRes)
    /\ ops' = ops + 1
    /\ UNCHANGED <<loopVars, backup, now, settingsVars>>

FreshSeries == {"one-piece", "naruto"}

FreshStartArgs == {-5, 10, 90}

FreshEndArgs == {EndNone, EndArg(5), EndArg(150)}

UpdateSeconds == {-5, 30, 200}

FreshInit ==
    /\ file \in {FAbsent, FObj(EmptyMap)}
    /\ backup = FAbsent
    /\ now = 0
    /\ ops = 0
    /\ last = [op |-> "init", series |-> "", args |-> NoArgs, pre |-> file,
               ret |-> TRUE, io |-> "ok", t0 |-> 0, res |-> NoRes, again |-> FALSE]
    /\ trace = TraceOn
    /\ LoopIdle
    /\ settingsFile = FAbsent
    /\ lsSettings = EmptyMap

FreshNext ==
    \/ \E s \in FreshSeries, t \in now .. MaxTime :
          SaveProgress(s, 1, 5, 120, ExtraNone, "s.to", t, "ok")
    \/ \E s \in FreshSeries : SaveProgress(s, 2, 1, 0, ExtraNone, "aniworld.to", now, "ok")
    \/ \E s \in FreshSeries, a \in FreshStartArgs, b \in FreshEndArgs :
          SetIntroSkipSeconds(s, a, b, "ok")
    \/ \E s \in FreshSeries, n \in EndSkipArgs : SetEndSkipSeconds(s, n, "ok")
    \/ \E s \in FreshSeries : HandleListItemDeletion(s, "ok")
    \/ \E s \in FreshSeries, n \in UpdateSeconds : ProcessIntroStartUpdate(s, n, "ok")
    \/ \E s \in FreshSeries, n \in UpdateSeconds : ProcessIntroEndUpdate(s, n, "ok")

SpecFresh == FreshInit /\ [][FreshNext]_vars

-----------------------------------------------------------------------------
(* The skip setters and getters on stores that may hold hand-edited values *)

GetIntroSkip(series) ==
    /\ ops < MaxOps
    /\ Called("get_intro", series, NoArgs, TRUE, "ok", now,
              [raised |-> FALSE,
               data |-> [start |-> GetIntroSkipSeconds(file, series),
                         end |-> GetIntroSkipEndSeconds(file, series)]])
    /\ ops' = ops + 1
    /\ UNCHANGED <<loopVars, storeVars, settingsVars>>

GetEndSkip(series) ==
    /\ ops < MaxOps
    /\ Called("get_end", series, NoArgs, TRUE, "ok", now,
              [raised |-> FALSE, data |-> [seconds |-> GetEndSkipSeconds(file, series)]])
    /\ ops' = ops + 1
    /\ UNCHANGED <<loopVars, storeVars, settingsVars>>

(* an entry whose skip values were edited below zero in the file *)
EditedEntry ==
    DictEntry([season |-> 1, episode |-> 1, position |-> 0, timestamp |-> 0,
               provider |-> "s.to", intro_skip_start |-> -7, intro_skip_end |-> -2,
               end_skip |-> -3])

SkipDisk ==
    {FAbsent, FCorrupt, FObj(EmptyMap),
     FObj([naruto |-> NarutoEntry, bleach |-> BleachEntry]),
     FObj([naruto |-> EditedEntry, bleach |-> BleachEntry]),
     FObj([naruto |-> ScalarEntry, bleach |-> NarutoEntry])}

SkipInit ==
    /\ file \in SkipDisk
    /\ backup = FAbsent
    /\ now = 0
    /\ ops = 0
    /\ last = [op |-> "init", series |-> "", args |-> NoArgs, pre |-> file,
               ret |-> TRUE, io |-> "ok", t0 |-> 0, res |-> NoRes, again |-> FALSE]
    /\ trace = TraceOff
    /\ LoopIdle
    /\ settingsFile = FAbsent
    /\ lsSettings = EmptyMap

SkipNext ==
    \/ \E s \in Series, a \in StartArgs, b \in EndArgs, io \in IOOutcomes :
          SetIntroSkipSeconds(s, a, b, io)
    \/ \E s \in Series, n \in EndSkipArgs, io \in IOOutcomes : SetEndSkipSeconds(s, n, io)
    \/ \E s \in Series : GetIntroSkip(s)
    \/ \E s \in Series : GetEndSkip(s)

SpecSkip == SkipInit /\ [][SkipNext]_vars

-----------------------------------------------------------------------------
(* The intro-window step of play_episodes_loop on its own *)

IntroWindow(series) ==
    /\ ops < MaxOps
    /\ LET secs == GetIntroSkipSeconds(file, series)
           secsEnd == GetIntroSkipEndSeconds(file, series)
       IN /\ video' = IntroWindowStepOp(video, secs, secsEnd)
          /\ Called("intro_window", series,
                    [secs |-> secs, secsEnd |-> secsEnd, video |-> video], TRUE, "ok",
                    now, NoRes)
    /\ ops' = ops + 1
    /\ UNCHANGED <<storeVars, settingsVars, page, sess, obs>>

(* an entry with the window [10, 5] that set_intro_skip_seconds(s, 10, 5) stores *)
ReversedEntry == DictEntry([intro_skip_start |-> 10, intro_skip_end |-> 5])

IntroDisk ==
    {FObj(EmptyMap), FObj([naruto |-> NarutoEntry]), FObj([naruto |-> ReversedEntry]),
     FObj([naruto |-> EditedEntry])}

(* durations around intro_skip_end + 1 = 71 s, and a full episode *)
DurationInputs == {705, 710, 715, 14000}

CurrentTimeInputs == {0, 49, 50, 300, 700, 701}

VideoInputs ==
    {NoVideo} \cup {VideoLoading(c) : c \in CurrentTimeInputs}
              \cup {Video(d, c) : d \in DurationInputs, c \in CurrentTimeInputs}

IntroInit ==
    /\ file \in IntroDisk
    /\ backup = FAbsent
    /\ now = 0
    /\ ops = 0
    /\ last = [op |-> "init", series |-> "", args |-> NoArgs, pre |-> file,
               ret |-> TRUE, io |-> "ok", t0 |-> 0, res |-> NoRes, again |-> FALSE]
    /\ trace = TraceOff
    /\ settingsFile = FAbsent
    /\ lsSettings = EmptyMap
    /\ page = StartPage
    /\ video \in VideoInputs
    /\ sess = NoSess
    /\ obs = NoObs

IntroNext == \E s \in Series : IntroWindow(s)

SpecIntro == IntroInit /\ [][IntroNext]_vars

-----------------------------------------------------------------------------
(* Settings: JSON values are records [t, n, s]; a number n is in tenths *)

JBool(b) == [t |-> "bool", n |-> IF b THEN 1 ELSE 0, s |-> ""]

JNull == [t |-> "null", n |-> 0, s |-> ""]

JNum(tenths) == [t |-> "num", n |-> tenths, s |-> ""]

JStr(str) == [t |-> "str", n |-> 0, s |-> str]

(* the strings of the model that float() parses, with their value in tenths *)
FloatOfString == [x \in {"1.5"} |-> 15]

(* Python's bool(v) *)
PyBool(v) ==
    CASE v.t = "bool" -> v.n = 1
      [] v.t = "null" -> FALSE
      [] v.t = "num" -> v.n # 0
      [] OTHER -> v.s # ""

(* Python's float(v): the exception raised, or the value in tenths *)
PyFloat(v) ==
    CASE v.t = "bool" -> [exc |-> "none", n |-> v.n * 10]
      [] v.t = "num" -> [exc |-> "none", n |-> v.n]
      [] v.t = "null" -> [exc |-> "TypeError", n |-> 0]
      [] OTHER -> IF v.s \in DOMAIN FloatOfString
                  THEN [exc |-> "none", n |-> FloatOfString[v.s]]
                  ELSE [exc |-> "ValueError", n |-> 0]

(* dict.get(k, default) *)
Get(m, k, default) == IF k \in DOMAIN m THEN m[k] ELSE default

_default_settings ==
    [autoFullscreen |-> JBool(TRUE), autoSkipIntro |-> JBool(TRUE),
     autoSkipEndScreen |-> JBool(FALSE), autoNext |-> JBool(TRUE),
     playbackRate |-> JNum(10), volume |-> JNum(10)]

SettingsKeys == DOMAIN _default_settings

(* load_settings_file with d.update(data): the file's unknown keys kept *)
LoadSettingsFile_KeepsUnknown(sf) ==
    IF sf.kind = "obj"
    THEN [raised |-> FALSE, data |-> Merge(_default_settings, sf.data)]
    ELSE [raised |-> FALSE, data |-> _default_settings]

LoadSettingsFile(sf) ==
    IF sf.kind = "absent" THEN [raised |-> FALSE, data |-> _default_settings]
    ELSE LET r == ReadJson(sf) IN
         IF r.exc # "none" THEN [raised |-> FALSE, data |-> _default_settings]
         ELSE IF r.isDict
              THEN [raised |-> FALSE,
                    data |-> [k \in SettingsKeys |-> Get(r.data, k, _default_settings[k])]]
              ELSE [raised |-> FALSE, data |-> _default_settings]

SaveSettingsFileOp(sf, settings, io) ==
    LET d == [k \in SettingsKeys |-> Get(settings, k, _default_settings[k])]
        w == WriteJson(sf, d, TRUE, io)
    IN [file |-> w.file, ret |-> w.ok]

(* get_settings(driver): ls is what read_settings(driver) returned *)
GetSettingsOp(sf, ls) ==
    LET file_s == LoadSettingsFile(sf).data
        merged == Merge(file_s, ls)
        rate == PyFloat(Get(merged, "playbackRate", JNum(10)))
        vol == PyFloat(Get(merged, "volume", JNum(10)))
    IN IF rate.exc # "none" \/ vol.exc # "none"
       THEN [raised |-> TRUE, data |-> EmptyMap]
       ELSE [raised |-> FALSE,
             data |-> Merge(merged,
                 [autoFullscreen |-> JBool(PyBool(Get(merged, "autoFullscreen", JBool(TRUE)))),
                  autoSkipIntro |-> JBool(PyBool(Get(merged, "autoSkipIntro", JBool(TRUE)))),
                  autoSkipEndScreen |-> JBool(PyBool(Get(merged, "autoSkipEndScreen", JBool(TRUE)))),
                  autoNext |-> JBool(PyBool(Get(merged, "autoNext", JBool(TRUE)))),
                  playbackRate |-> JNum(rate.n),
                  volume |-> JNum(vol.n)])]

-----------------------------------------------------------------------------
(* Settings: the state machine *)

(* what settings.json may hold when the program starts *)
SettingsFileInputs ==
    {FAbsent, FUnreadable, FCorrupt, FNonObj, FObj(EmptyMap),
     FObj([volume |-> JNum(5), autoNext |-> JBool(FALSE)]),
     FObj([autoFullscreen |-> JNull, useTorProxy |-> JBool(TRUE)]),
     FObj([playbackRate |-> JStr("fast")])}

(* what the page may hold in localStorage 'bw_settings' *)
OverrideInputs ==
    {EmptyMap,
     [autoSkipIntro |-> JBool(FALSE)],
     [autoSkipIntro |-> JNull],
     [autoSkipEndScreen |-> JNum(0), autoFullscreen |-> JStr("")],
     [autoSkipEndScreen |-> JBool(TRUE), autoNext |-> JStr("off")],
     [playbackRate |-> JNull],
     [volume |-> JStr("loud")],
     [playbackRate |-> JStr("1.5"), volume |-> JNum(5)],
     [playbackRate |-> JBool(TRUE), useTorProxy |-> JBool(TRUE)]}

(* the settings argument of save_settings_file *)
PartialInputs ==
    {EmptyMap,
     [autoNext |-> JBool(FALSE)],
     [volume |-> JNum(3)],
     [playbackRate |-> JNum(15), useTorProxy |-> JBool(TRUE)],
     [autoFullscreen |-> JBool(FALSE), autoSkipIntro |-> JBool(FALSE),
      autoSkipEndScreen |-> JBool(TRUE), autoNext |-> JBool(FALSE),
      playbackRate |-> JNum(20), volume |-> JNum(0)]}

SettingsInit ==
    /\ file = FAbsent
    /\ backup = FAbsent
    /\ now = 0
    /\ ops = 0
    /\ settingsFile \in SettingsFileInputs
    /\ lsSettings \in OverrideInputs
    /\ last = [op |-> "init", series |-> "", args |-> NoArgs, pre |-> file,
               ret |-> TRUE, io |-> "ok", t0 |-> 0, res |-> NoRes, again |-> FALSE]
    /\ trace = TraceOff
    /\ LoopIdle

SaveSettingsFile(settings, io) ==
    /\ ops < MaxOps
    /\ LET r == SaveSettingsFileOp(settingsFile, settings, io)
       IN /\ settingsFile' = r.file
          /\ Called("save_settings", "",
                    [settings |-> settings, pre |-> settingsFile], r.ret, io, now, NoRes)
    /\ ops' = ops + 1
    /\ UNCHANGED <<loopVars, storeVars, lsSettings>>

GetSettings ==
    /\ ops < MaxOps
    /\ Called("get_settings", "", [pre |-> settingsFile, ls |-> lsSettings], TRUE, "ok",
              now, GetSettingsOp(settingsFile, lsSettings))
    /\ ops' = ops + 1
    /\ UNCHANGED <<loopVars, storeVars, settingsVars>>

LoadSettings ==
    /\ ops < MaxOps
    /\ Called("load_settings", "", [pre |-> settingsFile], TRUE, "ok", now,
              LoadSettingsFile(settingsFile))
    /\ ops' = ops + 1
    /\ UNCHANGED <<loopVars, storeVars, settingsVars>>

SettingsNext ==
    \/ \E p \in PartialInputs, io \in IOOutcomes : SaveSettingsFile(p, io)
    \/ GetSettings
    \/ LoadSettings

SpecSettings == SettingsInit /\ [][SettingsNext]_vars

-----------------------------------------------------------------------------
(* main and play_episodes_loop: one action per loop iteration.  The        *)
(* operators work on the record of everything an iteration reads or writes *)

Cur ==
    [page |-> page, video |-> video, sess |-> sess, obs |-> obs, file |-> file,
     settingsFile |-> settingsFile, lsSettings |-> lsSettings]

Becomes(n) ==
    /\ page' = n.page
    /\ video' = n.video
    /\ sess' = n.sess
    /\ obs' = n.obs
    /\ file' = n.file
    /\ settingsFile' = n.settingsFile
    /\ lsSettings' = n.lsSettings

(* history: one more poll has observed the posted flag (obs.tick is the  *)
(* parity of the number of inner-loop iterations so far)                 *)
Seen(o, flag) == [o EXCEPT !.seen[flag] = Min(@ + 1, 2)]

Step(c, name) == [c EXCEPT !.obs.step = name]

(* the settings the sidebar's save button posts *)
UiSettings ==
    [autoFullscreen |-> JBool(FALSE), autoSkipIntro |-> JBool(TRUE),
     autoSkipEndScreen |-> JBool(TRUE), autoNext |-> JBool(FALSE),
     playbackRate |-> JNum(10), volume |-> JNum(10)]

(* an iteration that saves the in-page override when nothing was posted *)
ConsumeSettingsUpdate_Always(c) ==
    LET given == IF c.page.upd = EmptyMap THEN c.lsSettings ELSE c.page.upd
        sf == SaveSettingsFileOp(c.settingsFile, given, "ok").file
    IN [c EXCEPT !.page.upd = EmptyMap,
                 !.settingsFile = sf,
                 !.lsSettings = LoadSettingsFile(sf).data]

(* read and remove bw_settings_update, save_settings_file, then           *)
(* localStorage bw_settings = load_settings_file()                        *)
ConsumeSettingsUpdate(c) ==
    IF c.page.upd = EmptyMap THEN c
    ELSE LET sf == SaveSettingsFileOp(c.settingsFile, c.page.upd, "ok").file
         IN [c EXCEPT !.page.upd = EmptyMap,
                      !.settingsFile = sf,
                      !.lsSettings = LoadSettingsFile(sf).data,
                      !.obs = Seen(@, "upd")]

(* the play loop's copy, which also merges the update into its locals *)
ConsumeSettingsUpdateInPlay(c) ==
    IF c.page.upd = EmptyMap THEN c
    ELSE LET upd == c.page.upd
             s == c.sess
         IN [ConsumeSettingsUpdate(c) EXCEPT
                !.sess.auto_skip = PyBool(Get(upd, "autoSkipIntro", JBool(s.auto_skip))),
                !.sess.auto_skip_end =
                    PyBool(Get(upd, "autoSkipEndScreen", JBool(s.auto_skip_end))),
                !.sess.auto_next = PyBool(Get(upd, "autoNext", JBool(s.auto_next)))]

(* main calls play_episodes_loop(series, season, episode, position) *)
StartSession(c, series, season, episode, position) ==
    [c EXCEPT !.sess.pc = "outer",
              !.sess.series = series,
              !.sess.season = season,
              !.sess.episode = episode,
              !.sess.position = position,
              !.obs.starts = Min(@ + 1, 2)]

(* safe_save_progress: the video's position when there is a video, else 0 *)
SafeSaveProgressOp(f, v, series, season, episode, t) ==
    LET pos == IF v.present THEN v.cur \div 10 ELSE 0
    IN SaveProgressOp(f, series, season, episode, pos, ExtraNone, "s.to", t, "ok").file

(* a resume that looks at the series only *)
ResumePosition_AnyEpisode(f, u) ==
    Get(FieldsOf(LoadProgress(f).data, u.series), "position", 0)

(* main's auto-detect: the position the play session is started with for  *)
(* the episode URL u                                                      *)
ResumePosition(f, u) ==
    LET sdata == FieldsOf(LoadProgress(f).data, u.series)
    IN IF /\ Get(sdata, "season", -1) = u.season
          /\ Get(sdata, "episode", -1) = u.episode
       THEN Get(sdata, "position", 0)
       ELSE 0

(* one iteration of main's loop.  ok: safe_navigate succeeds; v: the video *)
(* of the page it loads                                                   *)
MainIterationOp(c, ok, v) ==
    LET db == LoadProgress(c.file).data IN
    IF c.sess.should_quit THEN [c EXCEPT !.sess.pc = "done", !.obs.step = "main_exit"]
    ELSE IF c.page.quit
    THEN [c EXCEPT !.page.quit = FALSE, !.sess.should_quit = TRUE, !.sess.pc = "done",
                   !.obs = Seen([@ EXCEPT !.step = "main_quit"], "quit")]
    ELSE IF c.page.quitCookie
    THEN [c EXCEPT !.page.quitCookie = FALSE, !.sess.should_quit = TRUE,
                   !.sess.pc = "done",
                   !.obs = Seen([@ EXCEPT !.step = "main_quit_cookie"], "quit")]
    ELSE IF c.page.del # ""
    THEN [c EXCEPT !.page.del = "",
                   !.file = HandleListItemDeletionOp(c.file, c.page.del, "ok").file,
                   !.obs = Seen([@ EXCEPT !.step = "main_del"], "del")]
    ELSE LET c1 == ConsumeSettingsUpdate(c)
             sel == IF c1.page.selCookie # "" THEN c1.page.selCookie ELSE c1.page.sel
             u == c1.page.url
         IN IF sel # ""
            THEN LET c2 == [c1 EXCEPT !.page.sel = "", !.page.selCookie = "",
                                      !.obs = Seen(@, "sel")]
                     sdata == FieldsOf(db, sel)
                     season == Get(sdata, "season", 1)
                     episode == Get(sdata, "episode", 1)
                     position == Get(sdata, "position", 0)
                 IN IF ok
                    THEN Step(StartSession(
                                 [c2 EXCEPT !.page.url = EpisodeUrl(sel, season, episode),
                                            !.video = v,
                                            !.obs.videoSeen = @ \/ v.present],
                                 sel, season, episode, position), "main_sel")
                    ELSE Step(c2, "main_sel_failed")
            ELSE IF u.series # "" /\ u.season # 0 /\ u.episode # 0
            THEN Step(StartSession(c1, u.series, u.season, u.episode,
                                   ResumePosition(c1.file, u)), "main_auto")
            ELSE Step(c1, "main_idle")

(* the top of play_episodes_loop's outer loop down to its inner loop.  v:  *)
(* the video of the page navigate_to_episode loads; without an             *)
(* intro_times.json detect_intro_start is False and smart_skip_intro does  *)
(* not seek                                                                *)
PlayOuterOp(c, v, t) ==
    LET s == c.sess
        gs == GetSettingsOp(c.settingsFile, c.lsSettings)
        target == EpisodeUrl(s.series, s.season, s.episode)
        ls1 == IF c.lsSettings = EmptyMap
               THEN LoadSettingsFile(c.settingsFile).data
               ELSE c.lsSettings
    IN IF gs.raised THEN [c EXCEPT !.sess.pc = "main", !.obs.step = "outer_raised"]
       ELSE LET c1 == [c EXCEPT !.page.url = target,
                                !.lsSettings = ls1,
                                !.sess.auto_skip = PyBool(gs.data["autoSkipIntro"]),
                                !.sess.auto_skip_end = PyBool(gs.data["autoSkipEndScreen"]),
                                !.sess.auto_next = PyBool(gs.data["autoNext"]),
                                !.obs.videoSeen = @ \/ v.present]
            IN IF ~v.present
               THEN [c1 EXCEPT !.video = v, !.sess.pc = "main",
                               !.obs.step = "outer_novideo"]
               ELSE LET v1 == IF s.position > 0
                              THEN [v EXCEPT !.cur = Min(s.position * 10, v.duration)]
                              ELSE v
                        v2 == IntroWindowStepOp(v1, GetIntroSkipSeconds(c.file, s.series),
                                                GetIntroSkipEndSeconds(c.file, s.series))
                    IN [c1 EXCEPT !.video = v2,
                                  !.file = SafeSaveProgressOp(c.file, v2, s.series, s.season,
                                                              s.episode, t),
                                  !.sess.position = 0,
                                  !.sess.pc = "inner",
                                  !.obs.step = "outer_play"]

(* any change of identity taken for a switch of series *)
ClassifyUrl_AlwaysSwitch(u, series, season, episode) ==
    IF u.series # "" /\ (u.series # series \/ u.season # season \/ u.episode # episode)
    THEN "switch"
    ELSE "same"

(* the inner loop's comparison of the parsed URL with the session *)
ClassifyUrl(u, series, season, episode) ==
    IF /\ u.series = series
       /\ u.season # 0 /\ u.episode # 0
       /\ (u.season # season \/ u.episode # episode)
    THEN "continue"
    ELSE IF u.series # "" /\ u.series # series THEN "switch"
    ELSE "same"

(* an end of episode that plays the same episode again *)
EpisodeOver_SameEpisode(c, name) ==
    IF ~c.sess.auto_next THEN [c EXCEPT !.sess.pc = "main", !.obs.step = name]
    ELSE [c EXCEPT !.sess.position = 0, !.sess.pc = "outer", !.obs.step = name]

(* after the inner loop, when the episode is over: return unless autoNext, *)
(* else the next episode (series other than One Piece)                     *)
EpisodeOver(c, name) ==
    LET s == c.sess IN
    IF ~s.auto_next THEN [c EXCEPT !.sess.pc = "main", !.obs.step = name]
    ELSE [c EXCEPT !.sess.episode = @ + 1,
                   !.sess.position = IF s.auto_skip
                                     THEN GetIntroSkipSeconds(c.file, s.series)
                                     ELSE 0,
                   !.sess.pc = "outer",
                   !.obs.step = name]

(* the inner loop from the quit check on.  flags: what poll_ui_flags      *)
(* returned; due: the periodic save is due                                *)
PollTail(c, flags, due, t) ==
    LET s == c.sess IN
    IF flags.quit
    THEN [c EXCEPT !.sess.should_quit = TRUE, !.sess.pc = "main", !.obs.step = "poll_quit"]
    ELSE LET c1 == IF flags.del # ""
                   THEN [c EXCEPT !.file = HandleListItemDeletionOp(c.file, flags.del,
                                                                    "ok").file]
                   ELSE c
         IN IF flags.del # "" /\ flags.del = s.series
            THEN [c1 EXCEPT !.page.sel = "", !.page.selCookie = "", !.page.url = NoUrl,
                            !.video = NoVideo, !.sess.pc = "main",
                            !.obs.step = "poll_deleted"]
            ELSE IF ~c1.video.present THEN EpisodeOver(c1, "poll_novideo")
            ELSE LET v0 == c1.video
                     v1 == IF flags.skip /\ v0.finite /\ v0.duration > 10
                           THEN [v0 EXCEPT !.cur = v0.duration - 10]
                           ELSE v0
                     remaining == IF v1.finite THEN v1.duration - v1.cur ELSE 999990
                     f1 == IF due
                           THEN SafeSaveProgressOp(c1.file, v1, s.series, s.season,
                                                   s.episode, t)
                           ELSE c1.file
                     end_skip == GetEndSkipSeconds(f1, s.series)
                     c2 == [c1 EXCEPT !.video = v1, !.file = f1]
                 IN IF s.auto_skip_end /\ end_skip > 0 /\ remaining <= end_skip * 10
                    THEN EpisodeOver(
                             [c2 EXCEPT !.video.cur =
                                 IF v1.finite /\ @ < Max0(v1.duration - end_skip * 10)
                                 THEN Max0(v1.duration - end_skip * 10)
                                 ELSE @],
                             "poll_endskip")
                    ELSE IF remaining <= 30 THEN EpisodeOver(c2, "poll_end")
                    ELSE Step(c2, "poll_wait")

(* one iteration of play_episodes_loop's inner loop, with what follows    *)
(* the loop when the iteration leaves it                                  *)
PollIterationOp(c, due, t) ==
    LET s == c.sess
        p == c.page
        flags == [quit |-> p.quit, skip |-> p.skip, del |-> p.del, sel |-> p.sel]
        o1 == IF p.quit THEN Seen(c.obs, "quit") ELSE c.obs
        o2 == IF p.skip THEN Seen(o1, "skip") ELSE o1
        o3 == IF p.del # "" THEN Seen(o2, "del") ELSE o2
        o4 == IF p.sel # "" THEN Seen(o3, "sel") ELSE o3
        c1 == [c EXCEPT !.page.quit = FALSE, !.page.skip = FALSE, !.page.del = "",
                        !.obs = [o4 EXCEPT !.from = EpisodeUrl(s.series, s.season,
                                                               s.episode),
                                           !.tick = 1 - @,
                                           !.delTaken = p.del]]
        saved == SafeSaveProgressOp(c.file, c.video, s.series, s.season, s.episode, t)
        class == ClassifyUrl(p.url, s.series, s.season, s.episode)
    IN IF flags.sel # ""
       THEN [c1 EXCEPT !.file = saved, !.page.selCookie = flags.sel,
                       !.sess.pc = "main", !.obs.step = "poll_sel"]
       ELSE IF class = "continue"
       THEN [c1 EXCEPT !.file = saved,
                       !.sess.season = p.url.season,
                       !.sess.episode = p.url.episode,
                       !.sess.position = IF s.auto_skip
                                         THEN GetIntroSkipSeconds(saved, s.series)
                                         ELSE 0,
                       !.sess.pc = "outer",
                       !.obs.step = "poll_autonav"]
       ELSE IF class = "switch"
       THEN [c1 EXCEPT !.file = saved, !.sess.pc = "main", !.obs.step = "poll_switch"]
       ELSE PollTail(ConsumeSettingsUpdateInPlay(c1), flags, due, t)

MainIteration(ok, v) ==
    /\ sess.pc = "main"
    /\ Becomes(MainIterationOp(Cur, ok, v))
    /\ UNCHANGED <<backup, now, ops, last, trace>>

PlayOuter(v) ==
    /\ sess.pc = "outer"
    /\ Becomes(PlayOuterOp(Cur, v, now))
    /\ UNCHANGED <<backup, now, ops, last, trace>>

PollIteration(due) ==
    /\ sess.pc = "inner"
    /\ LET n == PollIterationOp(Cur, due, now)
       IN /\ n.sess.episode <= MaxEpisode
          /\ Becomes(n)
    /\ UNCHANGED <<backup, now, ops, last, trace>>

(* The user and the site *)

Event(o) == [o EXCEPT !.env = @ + 1, !.step = "event"]

UserEvent(o, v) == [Event(o) EXCEPT !.starts = 0, !.videoSeen = v]

(* the user opens another page, or the player moves on to one *)
Navigates(u, v) ==
    /\ obs.env < MaxEnv
    /\ sess.pc # "done"
    /\ u # page.url
    /\ page' = [page EXCEPT !.url = u]
    /\ video' = v
    /\ obs' = UserEvent(obs, v.present)
    /\ UNCHANGED <<storeVars, ops, last, trace, settingsVars, sess>>

ClicksQuit ==
    /\ obs.env < MaxEnv
    /\ sess.pc # "done"
    /\ page' = [page EXCEPT !.quit = TRUE, !.quitCookie = TRUE]
    /\ obs' = [Event(obs) EXCEPT !.seen.quit = 0, !.quitPosted = TRUE]
    /\ UNCHANGED <<storeVars, ops, last, trace, settingsVars, sess, video>>

ClicksSkip ==
    /\ obs.env < MaxEnv
    /\ sess.pc # "done"
    /\ page' = [page EXCEPT !.skip = TRUE]
    /\ obs' = [Event(obs) EXCEPT !.seen.skip = 0]
    /\ UNCHANGED <<storeVars, ops, last, trace, settingsVars, sess, video>>

ClicksDelete(series) ==
    /\ obs.env < MaxEnv
    /\ sess.pc # "done"
    /\ page' = [page EXCEPT !.del = series]
    /\ obs' = [Event(obs) EXCEPT !.seen.del = 0]
    /\ UNCHANGED <<storeVars, ops, last, trace, settingsVars, sess, video>>

ClicksSeries(series) ==
    /\ obs.env < MaxEnv
    /\ sess.pc # "done"
    /\ page' = [page EXCEPT !.sel = series, !.selCookie = series]
    /\ obs' = [UserEvent(obs, video.present) EXCEPT !.seen.sel = 0]
    /\ UNCHANGED <<storeVars, ops, last, trace, settingsVars, sess, video>>

SavesSettings ==
    /\ obs.env < MaxEnv
    /\ sess.pc # "done"
    /\ page' = [page EXCEPT !.upd = UiSettings]
    /\ lsSettings' = UiSettings
    /\ obs' = [Event(obs) EXCEPT !.seen.upd = 0]
    /\ UNCHANGED <<storeVars, ops, last, trace, settingsFile, sess, video>>

(* playback moves on, or the player drops the video element *)
VideoChanges(v) ==
    /\ obs.env < MaxEnv
    /\ sess.pc # "done"
    /\ video.present
    /\ v.present => v.cur > video.cur
    /\ video' = v
    /\ obs' = Event(obs)
    /\ UNCHANGED <<storeVars, ops, last, trace, settingsVars, sess, page>>

LoopSeries == {"naruto", "bleach"}

UrlInputs ==
    {NoUrl, EpisodeUrl("naruto", 1, 3), EpisodeUrl("naruto", 1, 4),
     EpisodeUrl("bleach", 1, 1)}

(* a page comes up with a video of 100 s at its start, or with none *)
LoadedVideos == {NoVideo, Video(1000, 0)}

LaterVideos == {NoVideo, Video(1000, 500), Video(1000, 980)}

LoopInit ==
    /\ file = FObj([naruto |-> NarutoEntry])
    /\ backup = FAbsent
    /\ now = 0
    /\ ops = 0
    /\ last = [op |-> "init", series |-> "", args |-> NoArgs, pre |-> file,
               ret |-> TRUE, io |-> "ok", t0 |-> 0, res |-> NoRes, again |-> FALSE]
    /\ trace = TraceOff
    /\ settingsFile = FAbsent
    /\ lsSettings = EmptyMap
    /\ page = StartPage
    /\ video = NoVideo
    /\ sess = MainSess
    /\ obs = NoObs

LoopNext ==
    \/ \E ok \in BOOLEAN, v \in LoadedVideos : MainIteration(ok, v)
    \/ \E v \in LoadedVideos : PlayOuter(v)
    \/ \E due \in BOOLEAN : PollIteration(due)
    \/ \E u \in UrlInputs, v \in LoadedVideos : Navigates(u, v)
    \/ ClicksQuit
    \/ ClicksSkip
    \/ \E s \in LoopSeries : ClicksDelete(s)
    \/ \E s \in LoopSeries : ClicksSeries(s)
    \/ SavesSettings
    \/ \E v \in LaterVideos : VideoChanges(v)

SpecLoop == LoopInit /\ [][LoopNext]_vars

(* The loops with a user who only opens pages and clicks quit.  The      *)
(* program is a single thread: the iteration its position in the code    *)
(* enables is the only one enabled, and it runs                          *)
LoopStep ==
    \/ \E ok \in BOOLEAN, v \in LoadedVideos : MainIteration(ok, v)
    \/ \E v \in LoadedVideos : PlayOuter(v)
    \/ \E due \in BOOLEAN : PollIteration(due)

QuitNext ==
    \/ LoopStep
    \/ \E u \in UrlInputs, v \in LoadedVideos : Navigates(u, v)
    \/ ClicksQuit

SpecQuit == LoopInit /\ [][QuitNext]_vars /\ WF_vars(LoopStep)

-----------------------------------------------------------------------------
(* Properties of the progress store (checked under Spec) *)

(* the fields of the object stored for a series; none when there is no     *)
(* entry, or when the entry is not an object                               *)
SavedKeys == {"season", "episode", "position", "timestamp", "provider"}

WriteOps == {"save", "set_intro", "set_end", "delete"}

SaveWithoutExtra ==
    /\ last.op = "save"
    /\ last.ret
    /\ DOMAIN last.args.extra.fields = {}

\* C1: when the entry of a series already has a stored intro_skip_end,
\* set_intro_skip(series, start) without an end leaves intro_skip_end as it
\* was and sets intro_skip_start = max(0, start).
C1_EndPreserved ==
    LET old == FieldsOf(LoadProgress(last.pre).data, last.series)
        new == FieldsOf(LoadProgress(file).data, last.series)
    IN (/\ last.op = "set_intro"
        /\ last.ret
        /\ ~last.args["end"].given
        /\ "intro_skip_end" \in DOMAIN old)
       => /\ {"intro_skip_start", "intro_skip_end"} \subseteq DOMAIN new
          /\ new["intro_skip_end"] = old["intro_skip_end"]
          /\ new["intro_skip_start"] = Max0(last.args["start"])

\* C2: after save(series, season, episode, position) without extra fields
\* has returned True, load() returns an entry for series with exactly that
\* season, episode and position and a timestamp not earlier than the time of
\* the call.
C2_RoundTrip ==
    SaveWithoutExtra =>
        LET l == LoadProgress(file)
            e == FieldsOf(l.data, last.series)
        IN /\ ~l.raised
           /\ last.series \in DOMAIN l.data
           /\ l.data[last.series].dict
           /\ {"season", "episode", "position", "timestamp"} \subseteq DOMAIN e
           /\ e["season"] = last.args["season"]
           /\ e["episode"] = last.args["episode"]
           /\ e["position"] = last.args["position"]
           /\ e["timestamp"] >= last.t0

(* a save that overwrote an older entry of the series, later on the clock *)
C2_Witness ==
    /\ SaveWithoutExtra
    /\ last.args["position"] = 120
    /\ last.t0 > 0
    /\ LET old == FieldsOf(LoadProgress(last.pre).data, last.series)
       IN /\ "episode" \in DOMAIN old
          /\ old["episode"] # last.args["episode"]
          /\ old["position"] # 120
          /\ old["timestamp"] < last.t0

\* C3: save without extra fields merges: every field of the series' entry
\* other than season, episode, position, timestamp and provider keeps its
\* value, no other field appears, and every other series' entry is unchanged.
C3_SaveMerges ==
    SaveWithoutExtra =>
        LET oldDb == LoadProgress(last.pre).data
            newDb == LoadProgress(file).data
            old == FieldsOf(oldDb, last.series)
            new == FieldsOf(newDb, last.series)
        IN /\ DOMAIN new = (DOMAIN old) \cup SavedKeys
           /\ \A k \in (DOMAIN old) \ SavedKeys : new[k] = old[k]
           /\ DOMAIN newDb = (DOMAIN oldDb) \cup {last.series}
           /\ \A o \in (DOMAIN oldDb) \ {last.series} : newDb[o] = oldDb[o]

(* a save over an entry that has intro and end-skip fields, beside the      *)
(* entry of another series                                                  *)
C3_Witness ==
    /\ SaveWithoutExtra
    /\ LET oldDb == LoadProgress(last.pre).data
           old == FieldsOf(oldDb, last.series)
       IN /\ {"intro_skip_start", "intro_skip_end", "end_skip"} \subseteq DOMAIN old
          /\ old["season"] # last.args["season"]
          /\ (DOMAIN oldDb) \ {last.series} # {}

\* C4: load() never raises: it returns the file's mapping when the file
\* holds a JSON object, and the empty mapping when the file is absent,
\* unreadable, not valid JSON, or JSON that is not an object.
C4_LoadTotal ==
    last.op = "load" =>
        /\ ~last.res.raised
        /\ last.pre.kind = "obj" => last.res.data = last.pre.data
        /\ last.pre.kind # "obj" => DOMAIN last.res.data = {}

(* a load of a file that exists and cannot be opened *)
C4_Witness ==
    /\ last.op = "load"
    /\ last.pre.kind = "unreadable"

\* C5: when the progress file holds invalid JSON, load() does not raise and
\* returns the contents of the .backup file when that file holds a JSON
\* object, and the empty mapping when the backup is absent or unparsable.
C5_BackupRecovery ==
    (last.op = "load" /\ last.pre.kind = "corrupt") =>
        /\ ~last.res.raised
        /\ backup.kind = "obj" => last.res.data = backup.data
        /\ backup.kind \in {"absent", "corrupt"} => DOMAIN last.res.data = {}

\* C6: when a store write operation (save, set_intro_skip, set_end_skip,
\* delete) returns False, the next load() returns the same mapping as before
\* the operation.
C6_FailedWriteKeepsStore ==
    (last.op \in WriteOps /\ ~last.ret) =>
        LoadProgress(file).data = LoadProgress(last.pre).data

\* C7: delete(series) returns True whenever the file write does not fail,
\* after it the store has no entry for series and every other entry is
\* unchanged; deleting an absent key returns True and leaves the file
\* unchanged, so a second delete in a row succeeds as well.
C7_IdempotentDelete ==
    last.op = "delete" =>
        LET oldDb == LoadProgress(last.pre).data
            newDb == LoadProgress(file).data
        IN /\ last.io = "ok" => last.ret
           /\ last.ret =>
                /\ last.series \notin DOMAIN newDb
                /\ DOMAIN newDb = (DOMAIN oldDb) \ {last.series}
                /\ \A o \in DOMAIN newDb : newDb[o] = oldDb[o]
           /\ last.series \notin DOMAIN oldDb => (last.ret /\ file = last.pre)

(* the second of two deletes of the same series in a row, the first of     *)
(* which removed the entry; both returned True                             *)
C7_Witness ==
    /\ last.op = "delete"
    /\ last.again
    /\ last.ret
    /\ last.pre.kind = "obj"
    /\ DOMAIN last.pre.data # {}

-----------------------------------------------------------------------------
(* Properties of the settings (checked under SpecSettings) *)

AutoBooleans == {"autoFullscreen", "autoSkipIntro", "autoSkipEndScreen"}

(* the merged settings: the file's settings (load_settings) overlaid with   *)
(* the session override                                                    *)
MergedSettings(sf, ls) == Merge(LoadSettingsFile(sf).data, ls)

NonNumeric(v) ==
    \/ v.t = "null"
    \/ (v.t = "str" /\ v.s \notin DOMAIN FloatOfString)

\* C8: after save_settings(partial) has returned True, each of the six
\* settings fields that partial does not have holds the value the file held
\* before the call, and each field partial has holds the value given.
C8_SaveSettingsMerges ==
    (last.op = "save_settings" /\ last.ret) =>
        LET before == LoadSettingsFile(last.args["pre"]).data
            after == LoadSettingsFile(settingsFile).data
            p == last.args["settings"]
        IN \A k \in SettingsKeys :
              after[k] = IF k \in DOMAIN p THEN p[k] ELSE before[k]

\* C9: in the effective settings each auto boolean (autoFullscreen,
\* autoSkipIntro, autoSkipEndScreen) is disabled only when its merged value
\* is the literal false: an absent, null or any other non-false value yields
\* true; two empty sources yield autoFullscreen = true, autoSkipIntro = true,
\* playbackRate = 1.0, volume = 1.0.
C9_DefaultOn ==
    (last.op = "get_settings" /\ ~last.res.raised) =>
        LET sf == last.args["pre"]
            ls == last.args["ls"]
            merged == MergedSettings(sf, ls)
            eff == last.res.data
        IN /\ \A k \in AutoBooleans :
                /\ k \in DOMAIN eff
                /\ eff[k] = JBool(FALSE) =>
                      (k \in DOMAIN merged /\ merged[k] = JBool(FALSE))
           /\ (DOMAIN ls = {} /\ sf \in {FAbsent, FObj(EmptyMap)}) =>
                /\ eff["autoFullscreen"] = JBool(TRUE)
                /\ eff["autoSkipIntro"] = JBool(TRUE)
                /\ eff["playbackRate"] = JNum(10)
                /\ eff["volume"] = JNum(10)

\* C10: resolving the effective settings never raises, and when the merged
\* playbackRate or volume is absent or not numeric (null, a non-numeric
\* string) the effective value is 1.0.
C10_NumericFallback ==
    last.op = "get_settings" =>
        LET merged == MergedSettings(last.args["pre"], last.args["ls"])
            eff == last.res.data
        IN /\ ~last.res.raised
           /\ \A k \in {"playbackRate", "volume"} :
                (k \notin DOMAIN merged \/ NonNumeric(merged[k]))
                    => eff[k] = JNum(10)

\* C11: load_settings() never raises and returns a record with exactly the
\* six settings keys: for each key the file's value when the settings file is
\* a JSON object that has the key, otherwise the hardcoded default; keys of
\* the file outside the six never appear, and a missing, unreadable or
\* unparsable file yields exactly the defaults.
C11_LoadSettingsTotal ==
    last.op = "load_settings" =>
        LET sf == last.args["pre"]
            got == last.res.data
        IN /\ ~last.res.raised
           /\ DOMAIN got = {"autoFullscreen", "autoSkipIntro", "autoSkipEndScreen",
                            "autoNext", "playbackRate", "volume"}
           /\ \A k \in DOMAIN got :
                got[k] = IF sf.kind = "obj" /\ k \in DOMAIN sf.data
                         THEN sf.data[k]
                         ELSE _default_settings[k]
           /\ sf.kind # "obj" => got = _default_settings

(* a load of a settings file that holds a key outside the six and a null   *)
(* for one of the six                                                      *)
C11_Witness ==
    /\ last.op = "load_settings"
    /\ last.args["pre"].kind = "obj"
    /\ "useTorProxy" \in DOMAIN last.args["pre"].data
    /\ last.res.data["autoFullscreen"] = JNull

\* C16: after any sequence of set_intro_skip calls and of sidebar intro-start
\* and intro-end updates processed by main, every stored entry that has both
\* intro_skip_start and intro_skip_end has intro_skip_end > intro_skip_start.
C16_IntroWindowOrdered ==
    LET db == LoadProgress(file).data IN
    \A s \in DOMAIN db :
        LET e == FieldsOf(db, s) IN
        {"intro_skip_start", "intro_skip_end"} \subseteq DOMAIN e
            => e["intro_skip_end"] > e["intro_skip_start"]

\* C18: starting from an empty store, after any sequence of save,
\* set_intro_skip, set_end_skip and delete every entry of the store is a
\* complete WatchEntry: it has season >= 1, episode >= 1 and position >= 0.
C18_EntriesComplete ==
    LET db == LoadProgress(file).data IN
    \A s \in DOMAIN db :
        LET e == FieldsOf(db, s) IN
        /\ {"season", "episode", "position"} \subseteq DOMAIN e
        /\ e["season"] >= 1
        /\ e["episode"] >= 1
        /\ e["position"] >= 0

SkipKeys == {"intro_skip_start", "intro_skip_end", "end_skip"}

(* a successful setter call left everything but the fields in written as it *)
(* was: the other fields of the entry and the other entries                 *)
OnlyWrote(written) ==
    LET pre == LoadProgress(last.pre).data
        post == LoadProgress(file).data
        old == FieldsOf(pre, last.series)
        new == FieldsOf(post, last.series)
    IN /\ DOMAIN post = DOMAIN pre \cup {last.series}
       /\ \A s \in DOMAIN pre \ {last.series} : post[s] = pre[s]
       /\ DOMAIN new = DOMAIN old \cup written
       /\ \A k \in DOMAIN old \ written : new[k] = old[k]

\* C19: a set_intro_skip or set_end_skip call that succeeds, whatever its
\* integer arguments, stores intro_skip_start and intro_skip_end (end_skip)
\* that are >= 0 and leaves the other fields of the entry and the other
\* entries unchanged; get_intro_skip and get_end_skip return values >= 0,
\* and get_end_skip returns 0 for a series with no stored end_skip.
C19_SkipsClamped ==
    LET new == FieldsOf(LoadProgress(file).data, last.series)
        cur == FieldsOf(LoadProgress(last.pre).data, last.series)
    IN /\ (last.op = "set_intro" /\ last.ret) =>
            /\ OnlyWrote({"intro_skip_start", "intro_skip_end"})
            /\ new["intro_skip_start"] >= 0
            /\ new["intro_skip_end"] >= 0
       /\ (last.op = "set_end" /\ last.ret) =>
            /\ OnlyWrote({"end_skip"})
            /\ new["end_skip"] >= 0
       /\ last.op = "get_intro" =>
            /\ last.res.data["start"] >= 0
            /\ last.res.data["end"] >= 0
       /\ last.op = "get_end" =>
            /\ last.res.data["seconds"] >= 0
            /\ "end_skip" \notin DOMAIN cur => last.res.data["seconds"] = 0

(* get_end_skip answers 0 for a stored end_skip of -3, on an entry whose     *)
(* start of -7 a set_intro_skip call with a negative start has replaced by 0 *)
C19_Witness ==
    LET e == FieldsOf(LoadProgress(file).data, "naruto") IN
    /\ last.op = "get_end"
    /\ last.series = "naruto"
    /\ SkipKeys \subseteq DOMAIN e
    /\ e["end_skip"] = -3
    /\ e["intro_skip_start"] = 0
    /\ last.res.data["seconds"] = 0

(* the calls so far: save("one-piece", 1, 5, 120) then                      *)
(* set_intro_skip("one-piece", 90, 150), both successful, on an empty store *)
C20_Scenario ==
    /\ trace.on
    /\ Len(trace.calls) = 2
    /\ trace.calls[1].op = "save"
    /\ trace.calls[1].series = "one-piece"
    /\ trace.calls[1].args = [season |-> 1, episode |-> 5, position |-> 120,
                              extra |-> ExtraNone, provider |-> "s.to"]
    /\ trace.calls[1].ret
    /\ trace.calls[2].op = "set_intro"
    /\ trace.calls[2].series = "one-piece"
    /\ trace.calls[2].args = [start |-> 90, end |-> EndArg(150)]
    /\ trace.calls[2].ret

\* C20 as stated: from an empty store, save("one-piece",1,5,120) then
\* set_intro_skip("one-piece",90,150) make load() return the single key
\* "one-piece" whose entry has exactly the fields season=1, episode=5,
\* position=120, intro_skip_start=90, intro_skip_end=150 and the timestamp
\* set by the save.
C20_ExactlySixFields ==
    C20_Scenario =>
        LET db == LoadProgress(file).data
            e == FieldsOf(db, "one-piece")
        IN /\ DOMAIN db = {"one-piece"}
           /\ DOMAIN e = {"season", "episode", "position", "intro_skip_start",
                          "intro_skip_end", "timestamp"}
           /\ e["season"] = 1 /\ e["episode"] = 5 /\ e["position"] = 120
           /\ e["intro_skip_start"] = 90 /\ e["intro_skip_end"] = 150
           /\ e["timestamp"] = trace.calls[1].t0

\* C20 amended: from an empty store, save("one-piece",1,5,120) then
\* set_intro_skip("one-piece",90,150) make load() return the single key
\* "one-piece" whose entry has exactly the fields season=1, episode=5,
\* position=120, provider="s.to", intro_skip_start=90, intro_skip_end=150
\* and the timestamp set by the save.
C20_ScenarioEntry ==
    C20_Scenario =>
        LET db == LoadProgress(file).data
            e == FieldsOf(db, "one-piece")
        IN /\ DOMAIN db = {"one-piece"}
           /\ DOMAIN e = {"season", "episode", "position", "provider",
                          "intro_skip_start", "intro_skip_end", "timestamp"}
           /\ e["season"] = 1 /\ e["episode"] = 5 /\ e["position"] = 120
           /\ e["provider"] = "s.to"
           /\ e["intro_skip_start"] = 90 /\ e["intro_skip_end"] = 150
           /\ e["timestamp"] = trace.calls[1].t0

(* the scenario has run, the save at a clock reading after the start *)
C20_Witness ==
    /\ C20_Scenario
    /\ trace.calls[1].t0 = MaxTime
    /\ "one-piece" \in DOMAIN LoadProgress(file).data

\* C17: the intro-window step of the play loop changes the video position
\* only by seeking to intro_skip_end, and only when the duration is known,
\* the position lies in [intro_skip_start, intro_skip_end] and
\* intro_skip_start < intro_skip_end < duration - 1; in particular it never
\* seeks when intro_skip_end >= duration - 1.
C17_IntroSeekGuarded ==
    last.op = "intro_window" =>
        LET v0 == last.args["video"]
            secs == last.args["secs"]
            secsEnd == last.args["secsEnd"]
        IN video # v0 =>
            /\ video = [v0 EXCEPT !.cur = secsEnd * 10]
            /\ v0.present /\ v0.finite
            /\ secs * 10 <= v0.cur /\ v0.cur <= secsEnd * 10
            /\ secs < secsEnd
            /\ secsEnd * 10 < v0.duration - 10

(* the step has sought to the stored end of 70 s in a video of 71.5 s *)
C17_Witness ==
    /\ last.op = "intro_window"
    /\ last.args["secs"] = 5
    /\ last.args["secsEnd"] = 70
    /\ last.args["video"].duration = 715
    /\ last.args["video"].cur = 50
    /\ video.cur = 700

PollSteps ==
    {"poll_sel", "poll_autonav", "poll_switch", "poll_quit", "poll_deleted",
     "poll_novideo", "poll_endskip", "poll_end", "poll_wait"}

(* an inner-loop iteration has just run and has read no selected series *)
PolledUrl == obs.step \in PollSteps /\ page.sel = ""

\* C12: in a play-loop iteration that reaches the URL check (no selected
\* series is read): when the URL parses to the session's series with a
\* different season or episode the session continues (the loop does not
\* return) with its season and episode set to the URL's; when it parses to
\* another series play_episodes_loop returns, the old series' entry holding
\* the session's season and episode and the video's position.
C12_ContinueOrSwitch ==
    LET from == obs.from
        u == page.url
        old == FieldsOf(LoadProgress(file).data, from.series)
    IN PolledUrl =>
        /\ (/\ u.series = from.series
            /\ u.episode # 0
            /\ (u.season # from.season \/ u.episode # from.episode))
              => /\ sess.pc = "outer"
                 /\ sess.series = from.series
                 /\ sess.season = u.season
                 /\ sess.episode = u.episode
        /\ (u.series # "" /\ u.series # from.series)
              => /\ sess.pc = "main"
                 /\ {"season", "episode", "position"} \subseteq DOMAIN old
                 /\ old["season"] = from.season
                 /\ old["episode"] = from.episode
                 /\ old["position"] = IF video.present THEN video.cur \div 10 ELSE 0

(* the session on ("naruto", 1, 3) has found the page on ("naruto", 1, 4) *)
(* and goes on with episode 4                                             *)
C12_Witness ==
    /\ PolledUrl
    /\ obs.from = EpisodeUrl("naruto", 1, 3)
    /\ page.url = EpisodeUrl("naruto", 1, 4)
    /\ sess.pc = "outer"
    /\ sess.episode = 4

\* C13: quit is never lost: once the UI has posted a quit request the
\* program eventually sets should_quit and terminates, whatever else is
\* pending in the poll iteration that reads the request.
C13_QuitHonoured == obs.quitPosted ~> (sess.should_quit /\ sess.pc = "done")

\* C14: every UI flag is one-shot: one posting of a flag is observed by at
\* most one poll across the play loop and the main loop.
C14_OneShot == \A flag \in DOMAIN obs.seen : obs.seen[flag] <= 1

\* C15: when no video element has become available since the user last
\* selected a series or opened a page, the program has started at most one
\* play session since then: after giving up it starts no further one.
C15_GivesUp == ~obs.videoSeen => obs.starts <= 1

-----------------------------------------------------------------------------
(* Episode URLs: a string is the sequence of its characters *)

Letters ==
    {"a", "b", "c", "d", "e", "f", "g", "h", "i", "j", "k", "l", "m",
     "n", "o", "p", "q", "r", "s", "t", "u", "v", "w", "x", "y", "z"}

Digits == {"0", "1", "2", "3", "4", "5", "6", "7", "8", "9"}

DigitChars == <<"0", "1", "2", "3", "4", "5", "6", "7", "8", "9">>

Whitespace == {" "}

(* str.lower() on the capitals the inputs use *)
LowerChar(c) ==
    CASE c = "N" -> "n"
      [] c = "O" -> "o"
      [] c = "P" -> "p"
      [] OTHER -> c

Lower(s) == [i \in 1..Len(s) |-> LowerChar(s[i])]

(* str(n) of format(), for n >= 0 *)
RECURSIVE Str(_)
Str(n) ==
    IF n < 10 THEN <<DigitChars[n + 1]>>
    ELSE Str(n \div 10) \o <<DigitChars[(n % 10) + 1]>>

DigitValue(c) == CHOOSE d \in 0..9 : DigitChars[d + 1] = c

(* int(s) of a string of decimal digits *)
RECURSIVE PyInt(_)
PyInt(s) ==
    IF s = <<>> THEN 0
    ELSE PyInt(SubSeq(s, 1, Len(s) - 1)) * 10 + DigitValue(s[Len(s)])

(* s.strip() *)
RECURSIVE Strip(_)
Strip(s) ==
    IF s = <<>> THEN s
    ELSE IF Head(s) \in Whitespace THEN Strip(Tail(s))
    ELSE IF s[Len(s)] \in Whitespace THEN Strip(SubSeq(s, 1, Len(s) - 1))
    ELSE s

(* re.sub(r"\s+", "-", s) *)
RECURSIVE HyphenateSpaces(_)
HyphenateSpaces(s) ==
    IF s = <<>> THEN s
    ELSE IF Head(s) \in Whitespace
         THEN IF Len(s) > 1 /\ s[2] \in Whitespace
              THEN HyphenateSpaces(Tail(s))
              ELSE <<"-">> \o HyphenateSpaces(Tail(s))
         ELSE <<Head(s)>> \o HyphenateSpaces(Tail(s))

SlugChar(c) == c \in Letters \cup Digits \cup {"-"}

slugify_series(s) == SelectSeq(HyphenateSpaces(Lower(Strip(s))), SlugChar)

(* STREAMING_PROVIDERS, in the order of the dict: what the episode        *)
(* template and the pattern put before the series, and whether the        *)
(* pattern's episode group is optional                                    *)
ProviderOrder == <<"s.to", "aniworld.to">>

SToPrefix ==
    <<"h", "t", "t", "p", "s", ":", "/", "/", "s", ".", "t", "o", "/", "s",
      "e", "r", "i", "e", "/", "s", "t", "r", "e", "a", "m", "/">>

AniWorldPrefix ==
    <<"h", "t", "t", "p", "s", ":", "/", "/", "a", "n", "i", "w", "o", "r",
      "l", "d", ".", "t", "o", "/", "a", "n", "i", "m", "e", "/", "s", "t",
      "r", "e", "a", "m", "/">>

StaffelPart ==
    <<"/", "s", "t", "a", "f", "f", "e", "l", "-">>

EpisodePart ==
    <<"/", "e", "p", "i", "s", "o", "d", "e", "-">>

STREAMING_PROVIDERS ==
    [p \in Providers |->
        IF p = "s.to" THEN [prefix |-> SToPrefix, episode_optional |-> TRUE]
        ELSE [prefix |-> AniWorldPrefix, episode_optional |-> FALSE]]

(* provider_info["episode_url_template"].format(series=, season=, episode=) *)
FormatEpisodeUrl(provider, series, season, episode) ==
    STREAMING_PROVIDERS[provider].prefix \o series \o StaffelPart \o Str(season)
        \o EpisodePart \o Str(episode)

(* STREAMING_PROVIDERS.get(provider, STREAMING_PROVIDERS["s.to"]) and the *)
(* target navigate_to_episode opens                                       *)
TargetUrl(series, season, episode, provider) ==
    FormatEpisodeUrl(IF provider \in Providers THEN provider ELSE "s.to",
                     slugify_series(series), season, episode)

(* whether the literal lit stands in u at position i *)
HasAt(u, i, lit) ==
    /\ i + Len(lit) - 1 <= Len(u)
    /\ \A k \in 1..Len(lit) : u[i + k - 1] = lit[k]

(* a segment that ends at the first hyphen *)
RECURSIVE SegmentEnd_StopsAtHyphen(_, _)
SegmentEnd_StopsAtHyphen(u, i) ==
    IF i <= Len(u) /\ u[i] \notin {"/", "-"} THEN SegmentEnd_StopsAtHyphen(u, i + 1)
    ELSE i

(* [^/]+ from position i: the position after the longest run it matches *)
RECURSIVE SegmentEnd(_, _)
SegmentEnd(u, i) ==
    IF i <= Len(u) /\ u[i] # "/" THEN SegmentEnd(u, i + 1) ELSE i

(* \d+ from position i *)
RECURSIVE DigitsEnd(_, _)
DigitsEnd(u, i) ==
    IF i <= Len(u) /\ u[i] \in Digits THEN DigitsEnd(u, i + 1) ELSE i

NoMatch == [ok |-> FALSE, g1 |-> <<>>, g2 |-> <<>>, g3 |-> <<>>]

(* the provider's url_pattern matched at position i of u, with its groups; *)
(* a group that ends its run is followed by "/" or by nothing, so only    *)
(* the longest run of each group can match                                *)
MatchAt(u, i, provider) ==
    LET info == STREAMING_PROVIDERS[provider]
        a == i + Len(info.prefix)
        b == SegmentEnd(u, a)
        c == b + Len(StaffelPart)
        d == DigitsEnd(u, c)
        e == d + Len(EpisodePart)
        f == DigitsEnd(u, e)
        hasEpisode == HasAt(u, d, EpisodePart) /\ f > e
    IN IF /\ HasAt(u, i, info.prefix)
          /\ b > a
          /\ HasAt(u, b, StaffelPart)
          /\ d > c
          /\ (hasEpisode \/ info.episode_optional)
       THEN [ok |-> TRUE, g1 |-> SubSeq(u, a, b - 1), g2 |-> SubSeq(u, c, d - 1),
             g3 |-> IF hasEpisode THEN SubSeq(u, e, f - 1) ELSE <<>>]
       ELSE NoMatch

(* re.search: the leftmost match *)
Search(u, provider) ==
    LET at == {i \in 1..Len(u) : MatchAt(u, i, provider).ok}
    IN IF at = {} THEN NoMatch
       ELSE MatchAt(u, CHOOSE i \in at : \A j \in at : i <= j, provider)

(* (None, None, None, None) *)
NoIdentity ==
    [matched |-> FALSE, series |-> <<>>, season |-> 0, episode |-> 0,
     episodeNone |-> TRUE, provider |-> ""]

RECURSIVE ParseFrom(_, _)
ParseFrom(u, k) ==
    IF k > Len(ProviderOrder) THEN NoIdentity
    ELSE LET m == Search(u, ProviderOrder[k])
         IN IF m.ok
            THEN [matched |-> TRUE, series |-> Lower(m.g1), season |-> PyInt(m.g2),
                  episode |-> PyInt(m.g3), episodeNone |-> m.g3 = <<>>,
                  provider |-> ProviderOrder[k]]
            ELSE ParseFrom(u, k + 1)

parse_episode_info(u) == ParseFrom(u, 1)

-----------------------------------------------------------------------------
(* Building and parsing episode URLs: last holds the identity asked for,  *)
(* the URL in the address bar, where that URL came from and what          *)
(* parse_episode_info made of it                                          *)

(* the URL of a provider's season page: the pattern up to its episode part *)
SeasonUrl(provider, series, season) ==
    STREAMING_PROVIDERS[provider].prefix \o series \o StaffelPart \o Str(season)

(* navigate_to_episode builds its target and opens it *)
OpensTarget ==
    /\ last.origin = "typed"
    /\ last' = [last EXCEPT
                  !.op = "format",
                  !.origin = "episode",
                  !.url = TargetUrl(last.ident.series, last.ident.season,
                                    last.ident.episode, last.ident.provider)]
    /\ UNCHANGED <<loopVars, storeVars, settingsVars, ops, trace>>

(* the site shows the season page of the identity *)
OpensSeasonPage ==
    /\ last.origin = "typed"
    /\ last.ident.provider \in Providers
    /\ last' = [last EXCEPT
                  !.op = "season",
                  !.origin = "season",
                  !.url = SeasonUrl(last.ident.provider, last.ident.series,
                                    last.ident.season)]
    /\ UNCHANGED <<loopVars, storeVars, settingsVars, ops, trace>>

(* parse_episode_info(driver.current_url) *)
ParseCurrentUrl ==
    /\ last.op # "parse"
    /\ last' = [last EXCEPT !.op = "parse", !.parsed = parse_episode_info(last.url)]
    /\ UNCHANGED <<loopVars, storeVars, settingsVars, ops, trace>>

SeriesNames ==
    {<<"n", "a", "r", "u", "t", "o">>,
     <<"o", "n", "e", "-", "p", "i", "e", "c", "e">>,
     <<"O", "n", "e", " ", "P", "i", "e", "c", "e">>,
     <<" ", "s", "1", " ">>,
     <<>>}

IdentityInputs ==
    [provider : Providers \cup {"vidoza"}, series : SeriesNames, season : {0, 1, 12},
     episode : {0, 1, 5, 10}]

(* pages that are no episode of any provider *)
OtherPages ==
    {<<"h", "t", "t", "p", "s", ":", "/", "/", "s", ".", "t", "o", "/">>,
     <<"a", "b", "o", "u", "t", ":", "b", "l", "a", "n", "k">>,
     <<"h", "t", "t", "p", "s", ":", "/", "/", "s", ".", "t", "o", "/",
       "s", "e", "r", "i", "e", "/", "s", "t", "r", "e", "a", "m",
       "/", "n", "a", "r", "u", "t", "o">>,
     <<"h", "t", "t", "p", "s", ":", "/", "/", "a", "n", "i", "w", "o",
       "r", "l", "d", ".", "t", "o", "/", "a", "n", "i", "m", "e",
       "s">>}

(* addresses typed with capitals, leading zeros or a bare episode part *)
TypedUrls ==
    OtherPages \cup
    {<<"h", "t", "t", "p", "s", ":", "/", "/", "s", ".", "t", "o", "/",
       "s", "e", "r", "i", "e", "/", "s", "t", "r", "e", "a", "m",
       "/", "N", "a", "r", "u", "t", "o", "/", "s", "t", "a", "f",
       "f", "e", "l", "-", "0", "1", "/", "e", "p", "i", "s", "o",
       "d", "e", "-", "0", "7">>,
     <<"h", "t", "t", "p", "s", ":", "/", "/", "a", "n", "i", "w", "o",
       "r", "l", "d", ".", "t", "o", "/", "a", "n", "i", "m", "e",
       "/", "s", "t", "r", "e", "a", "m", "/", "n", "a", "r", "u",
       "t", "o", "/", "s", "t", "a", "f", "f", "e", "l", "-", "2",
       "/", "e", "p", "i", "s", "o", "d", "e", "-">>}

UrlInit ==
    /\ file = FAbsent
    /\ backup = FAbsent
    /\ now = 0
    /\ ops = 0
    /\ \E id \in IdentityInputs, u \in TypedUrls :
          last = [op |-> "init", ident |-> id, origin |-> "typed", url |-> u,
                  parsed |-> NoIdentity]
    /\ trace = TraceOff
    /\ LoopIdle
    /\ settingsFile = FAbsent
    /\ lsSettings = EmptyMap

UrlNext ==
    \/ OpensTarget
    \/ OpensSeasonPage
    \/ ParseCurrentUrl

SpecUrl == UrlInit /\ [][UrlNext]_vars

-----------------------------------------------------------------------------
(* Properties of the episode URLs (checked under SpecUrl) *)

(* a non-empty normalized slug: a-z, 0-9 and "-" *)
IsSlug(s) == s # <<>> /\ \A i \in 1..Len(s) : SlugChar(s[i])

\* C21: locator round trip: for every known provider and every identity
\* whose series is a non-empty normalized slug with season >= 1 and
\* episode >= 1, parsing the URL built from the provider's template gives
\* exactly that series, season, episode and provider.
C21_LocatorRoundTrip ==
    LET id == last.ident
    IN (/\ last.op = "parse"
        /\ last.origin = "episode"
        /\ id.provider \in Providers
        /\ IsSlug(id.series)
        /\ id.season >= 1
        /\ id.episode >= 1)
         => last.parsed = [matched |-> TRUE, series |-> id.series,
                           season |-> id.season, episode |-> id.episode,
                           episodeNone |-> FALSE, provider |-> id.provider]

(* one-piece, season 12, episode 10 on aniworld.to came back from its URL *)
C21_Witness ==
    /\ last.op = "parse"
    /\ last.origin = "episode"
    /\ last.ident = [provider |-> "aniworld.to", series |-> <<"o", "n", "e", "-", "p", "i", "e",
                                      "c",
                                      "e">>,
                     season |-> 12, episode |-> 10]
    /\ last.parsed.matched
    /\ last.parsed.season = 12

\* C22: parsing a URL that matches no provider pattern gives no identity,
\* and for every known provider the URL of a season page (no episode
\* segment) parses to that provider, the series, the season as an integer
\* and no episode.
C22_SeasonOnlyParses ==
    LET id == last.ident
    IN /\ (last.op = "parse" /\ last.origin = "typed" /\ last.url \in OtherPages)
            => last.parsed = NoIdentity
       /\ (/\ last.op = "parse"
           /\ last.origin = "season"
           /\ IsSlug(id.series)
           /\ id.season >= 1)
            => last.parsed = [matched |-> TRUE, series |-> id.series,
                              season |-> id.season, episode |-> 0,
                              episodeNone |-> TRUE, provider |-> id.provider]

-----------------------------------------------------------------------------
(* The loops with a user who picks a series and saves the settings panel *)

SaveNext ==
    \/ LoopStep
    \/ \E s \in LoopSeries : ClicksSeries(s)
    \/ SavesSettings

SpecSave == LoopInit /\ [][SaveNext]_vars

(* Properties of the loops' settings handling (checked under SpecSave) *)

OuterSteps == {"outer_play", "outer_novideo", "outer_raised"}

\* C23: the settings file is written only by a step that consumes a posted
\* settings update (bw_settings_update); the top of a play session, which
\* reads and merges the in-page override bw_settings and syncs the file's
\* settings into page storage, never changes the settings file.
C23_OnlyExplicitSave ==
    [][/\ settingsFile' # settingsFile
            => (page.upd # EmptyMap /\ page'.upd = EmptyMap)
       /\ (sess.pc = "outer" /\ obs'.step \in OuterSteps)
            => settingsFile' = settingsFile]_vars

(* a play session has started on the override the save button left in    *)
(* page storage (autoNext off), the settings file not yet written        *)
C23_Witness ==
    /\ obs.step = "outer_play"
    /\ lsSettings = UiSettings
    /\ ~sess.auto_next
    /\ page.upd # EmptyMap
    /\ settingsFile = FAbsent

-----------------------------------------------------------------------------
(* The end of an episode: the loops with a user who picks a series and a  *)
(* video that plays on, under settings with the end-screen skip off (the  *)
(* default), on, and on with autoNext off                                 *)

(* remaining 50, 30, 20, 3 and 2 seconds of 100 *)
EndVideos ==
    {Video(1000, 500), Video(1000, 700), Video(1000, 800), Video(1000, 970),
     Video(1000, 980)}

EndSettingsFiles ==
    {FAbsent, FObj([autoSkipEndScreen |-> JBool(TRUE)]),
     FObj([autoSkipEndScreen |-> JBool(TRUE), autoNext |-> JBool(FALSE)])}

EndInit ==
    /\ file = FObj([naruto |-> NarutoEntry])
    /\ backup = FAbsent
    /\ now = 0
    /\ ops = 0
    /\ last = [op |-> "init", series |-> "", args |-> NoArgs, pre |-> file,
               ret |-> TRUE, io |-> "ok", t0 |-> 0, res |-> NoRes, again |-> FALSE]
    /\ trace = TraceOff
    /\ settingsFile \in EndSettingsFiles
    /\ lsSettings = EmptyMap
    /\ page = StartPage
    /\ video = NoVideo
    /\ sess = MainSess
    /\ obs = NoObs

EndNext ==
    \/ LoopStep
    \/ \E s \in LoopSeries : ClicksSeries(s)
    \/ \E v \in EndVideos : VideoChanges(v)

SpecEnd == EndInit /\ [][EndNext]_vars

TimeCheckSteps == {"poll_endskip", "poll_end", "poll_wait"}

\* C24: in a play-loop iteration that reaches the remaining-time check:
\* with autoSkipEndScreen enabled and a stored end_skip > 0 the episode is
\* treated as finished when the remaining time is <= end_skip (or <= 3 s);
\* with autoSkipEndScreen disabled or end_skip = 0 the stored end_skip has
\* no effect and the episode is finished exactly when the remaining time
\* is <= 3 s.
C24_EndSkip ==
    LET stored == Get(FieldsOf(LoadProgress(file).data, obs.from.series), "end_skip", 0)
        remaining == video.duration - video.cur
        over == obs.step \in {"poll_endskip", "poll_end"}
    IN (obs.step \in TimeCheckSteps /\ video.present /\ video.finite) =>
          IF sess.auto_skip_end /\ stored > 0
          THEN over <=> (remaining <= stored * 10 \/ remaining <= 30)
          ELSE over <=> remaining <= 30

(* naruto (end_skip 30) is over with 20 s left *)
C24_Witness ==
    /\ obs.step = "poll_endskip"
    /\ obs.from.series = "naruto"
    /\ video = Video(1000, 800)
    /\ sess.auto_skip_end

-----------------------------------------------------------------------------
(* Two instances of the script on one progress.json.  A store write is    *)
(* two steps: db = load_progress(), then open(path, "w") and json.dump of *)
(* the changed db.  Here sess maps an instance to its position in the     *)
(* operation it runs, the operation, the file contents its load read, and *)
(* the steps (counted in ops) at which it loaded and wrote                *)

Instances == {"A", "B"}

IdleInstance ==
    [pc |-> "idle", op |-> [name |-> "none", series |-> ""], snap |-> FAbsent,
     loadedAt |-> 0, wroteAt |-> 0]

SaveCall(series, episode, position) ==
    [name |-> "save", series |-> series, season |-> 1, episode |-> episode,
     position |-> position]

SetIntroCall(series, start_seconds) ==
    [name |-> "set_intro", series |-> series, start |-> start_seconds]

(* the file the operation leaves when it loads from the contents from *)
StoreWriteOf(from, op) ==
    IF op.name = "save"
    THEN SaveProgressOp(from, op.series, op.season, op.episode, op.position, ExtraNone,
                        "s.to", now, "ok").file
    ELSE SetIntroSkipSecondsOp(from, op.series, op.start, EndNone, "ok").file

(* a write that loads again from the file f it is about to replace *)
WrittenBy_Reloads(f, snap, op) == StoreWriteOf(f, op)

(* what the write step puts in the file: the db loaded at the load step, *)
(* changed by the operation                                              *)
WrittenBy(f, snap, op) == StoreWriteOf(snap, op)

(* load_progress() at the top of save_progress or set_intro_skip_seconds *)
LoadStep(i, op) ==
    /\ sess[i].pc = "idle"
    /\ sess' = [sess EXCEPT ![i] = [pc |-> "loaded", op |-> op, snap |-> file,
                                    loadedAt |-> ops + 1, wroteAt |-> 0]]
    /\ ops' = ops + 1
    /\ UNCHANGED <<storeVars, settingsVars, last, trace, page, video, obs>>

BeginSaveProgress(i, series, episode, position) ==
    LoadStep(i, SaveCall(series, episode, position))

BeginSetIntroSkipSeconds(i, series, start_seconds) ==
    LoadStep(i, SetIntroCall(series, start_seconds))

(* with open(PROGRESS_DB_FILE, "w") as f: json.dump(db, f) *)
WriteStep(i) ==
    /\ sess[i].pc = "loaded"
    /\ file' = WrittenBy(file, sess[i].snap, sess[i].op)
    /\ sess' = [sess EXCEPT ![i].pc = "done", ![i].wroteAt = ops + 1]
    /\ ops' = ops + 1
    /\ UNCHANGED <<backup, now, settingsVars, last, trace, page, video, obs>>

RaceDisk == {FObj(EmptyMap), FObj([naruto |-> NarutoEntry, bleach |-> BleachEntry])}

RaceInit ==
    /\ file \in RaceDisk
    /\ backup = FAbsent
    /\ now = 0
    /\ ops = 0
    /\ last = [op |-> "init", series |-> "", args |-> NoArgs, pre |-> file,
               ret |-> TRUE, io |-> "ok", t0 |-> 0, res |-> NoRes, again |-> FALSE]
    /\ trace = TraceOff
    /\ settingsFile = FAbsent
    /\ lsSettings = EmptyMap
    /\ page = StartPage
    /\ video = NoVideo
    /\ sess = [i \in Instances |-> IdleInstance]
    /\ obs = NoObs

RaceNext ==
    \/ \E i \in Instances, s \in Series, e \in {4, 5}, p \in {0, 50} :
          BeginSaveProgress(i, s, e, p)
    \/ \E i \in Instances, s \in Series, a \in {10, 20} : BeginSetIntroSkipSeconds(i, s, a)
    \/ \E i \in Instances : WriteStep(i)

SpecRace == RaceInit /\ [][RaceNext]_vars

(* the fields the operation sets in its series' entry *)
UpdateOf(op) ==
    IF op.name = "save"
    THEN [season |-> op.season, episode |-> op.episode, position |-> op.position]
    ELSE [intro_skip_start |-> op.start, intro_skip_end |-> op.start + 60]

Holds(f, op) ==
    LET e == FieldsOf(LoadProgress(f).data, op.series)
        u == UpdateOf(op)
    IN \A k \in DOMAIN u : k \in DOMAIN e /\ e[k] = u[k]

(* both instances have finished writes on different series, first wrote   *)
(* before second, and second had loaded before first wrote                *)
Interleaved(first, second) ==
    /\ sess[first].pc = "done"
    /\ sess[second].pc = "done"
    /\ sess[first].op.series # sess[second].op.series
    /\ sess[first].wroteAt < sess[second].wroteAt
    /\ sess[second].loadedAt < sess[first].wroteAt

\* C25: the progress store has a read-modify-write race: when two writes
\* on different series interleave so that the second loads before the
\* first writes, the final file holds the second's update and, for the
\* first's series, what the second had loaded: the first update is lost.
C25_LostUpdate ==
    \A first, second \in Instances :
        Interleaved(first, second) =>
            /\ Holds(file, sess[second].op)
            /\ FieldsOf(LoadProgress(file).data, sess[first].op.series)
                 = FieldsOf(LoadProgress(sess[second].snap).data, sess[first].op.series)

(* A saved naruto episode 4 and B then wrote bleach's intro window from  *)
(* the store it had loaded before: naruto is back at episode 3           *)
C25_Witness ==
    /\ Interleaved("A", "B")
    /\ sess["A"].op = SaveCall("naruto", 4, 50)
    /\ sess["B"].op = SetIntroCall("bleach", 10)
    /\ ~Holds(file, sess["A"].op)
    /\ Holds(file, sess["B"].op)

-----------------------------------------------------------------------------
(* main's exception handlers.  obs.errors counts the session errors       *)
(* (InvalidSessionIdException, WebDriverException) main has caught, and   *)
(* obs.browser is how the last start of the browser went: "up",           *)
(* "nostart" (start_browser raises) or "noload" (safe_navigate to the     *)
(* start page returns False)                                              *)

BrowserOutcomes == {"up", "nostart", "noload"}

(* a handler that restarts the browser whatever the count *)
SessionErrorOp_NoLimit(c, outcome) ==
    [c EXCEPT !.sess.restarts = @ + 1, !.sess.pc = "main", !.page.url = NoUrl,
              !.video = NoVideo,
              !.obs = [@ EXCEPT !.errors = Min(@ + 1, 4), !.browser = outcome,
                                !.step = "session_error"]]

(* except (InvalidSessionIdException, WebDriverException): the exception  *)
(* start_browser raises inside the handler leaves the loop for the outer  *)
(* "Fatal" handler, with should_quit as it was                            *)
SessionErrorOp(c, outcome) ==
    LET o == [c.obs EXCEPT !.errors = Min(@ + 1, 4), !.step = "session_error"]
    IN IF c.sess.restarts >= 2
       THEN [c EXCEPT !.sess.should_quit = TRUE, !.sess.pc = "done", !.video = NoVideo,
                      !.obs = o]
       ELSE LET c1 == [c EXCEPT !.sess.restarts = @ + 1, !.video = NoVideo,
                                !.obs = [o EXCEPT !.browser = outcome]]
            IN IF outcome = "nostart" THEN [c1 EXCEPT !.sess.pc = "done"]
               ELSE IF outcome = "noload"
               THEN [c1 EXCEPT !.sess.should_quit = TRUE, !.sess.pc = "done"]
               ELSE [c1 EXCEPT !.sess.pc = "main", !.page.url = NoUrl]

(* except Exception: a warning, and the loop goes on *)
OtherErrorOp(c) == [c EXCEPT !.sess.pc = "main", !.obs.step = "other_error"]

(* an iteration of main's loop is running: in main itself or inside the  *)
(* play_episodes_loop it called                                          *)
InIteration ==
    \/ sess.pc = "main" /\ ~sess.should_quit
    \/ sess.pc \in {"outer", "inner"}

SessionError(outcome) ==
    /\ InIteration
    /\ Becomes(SessionErrorOp(Cur, outcome))
    /\ UNCHANGED <<backup, now, ops, last, trace>>

OtherError ==
    /\ InIteration
    /\ obs.step # "other_error"
    /\ Becomes(OtherErrorOp(Cur))
    /\ UNCHANGED <<backup, now, ops, last, trace>>

RestartNext ==
    \/ LoopStep
    \/ \E s \in LoopSeries : ClicksSeries(s)
    \/ ClicksQuit
    \/ \E outcome \in BrowserOutcomes : SessionError(outcome)
    \/ OtherError

SpecRestart == LoopInit /\ [][RestartNext]_vars

AfterSessionError == obs.step = "session_error"

RestartedAndContinues ==
    /\ sess.pc = "main"
    /\ ~sess.should_quit
    /\ sess.restarts = obs.errors

QuitAndEnded == sess.should_quit /\ sess.pc = "done"

\* C26: main restarts the browser at most 2 times over its whole run: each
\* session error before that triggers one restart and continues the loop,
\* the third session error (or a restart whose start page fails to load)
\* sets should_quit and ends the process, while any other exception inside
\* a main-loop iteration never ends the process.
C26_AtMostTwoRestarts ==
    /\ sess.restarts <= 2
    /\ AfterSessionError =>
          IF obs.errors >= 3 THEN QuitAndEnded /\ sess.restarts = 2
          ELSE IF obs.browser = "noload" THEN QuitAndEnded
          ELSE RestartedAndContinues
    /\ obs.step = "other_error" => sess.pc = "main" /\ ~sess.should_quit

\* C26 (amended): as above, and a restart in which the browser itself fails
\* to start ends the process without setting should_quit.
C26_RestartsOrEnds ==
    /\ sess.restarts <= 2
    /\ AfterSessionError =>
          IF obs.errors >= 3 THEN QuitAndEnded /\ sess.restarts = 2
          ELSE IF obs.browser = "noload" THEN QuitAndEnded
          ELSE IF obs.browser = "nostart"
          THEN sess.pc = "done" /\ sess.restarts = obs.errors
          ELSE RestartedAndContinues
    /\ obs.step = "other_error" => sess.pc = "main" /\ ~sess.should_quit

(* the third session error has ended the process after two restarts *)
C26_Witness ==
    /\ AfterSessionError
    /\ obs.errors = 3
    /\ sess.restarts = 2
    /\ QuitAndEnded

-----------------------------------------------------------------------------
(* Properties of the play loop (checked under SpecLoop and SpecEnd);  *)
(* obs.delTaken is the bw_seriesToDelete the last poll removed       *)

\* C27: every series-to-delete request that a play-loop poll removes from
\* page storage is applied to the progress store in that same iteration:
\* after the iteration the series is absent from the store, whatever else
\* the poll observed.
C27_DeleteApplied ==
    (obs.step \in PollSteps /\ obs.delTaken # "")
        => obs.delTaken \notin DOMAIN LoadProgress(file).data

(* the inner-loop iterations that end the episode: end-screen skip, less *)
(* than 3 s left, or the video gone                                      *)
OverSteps == {"poll_endskip", "poll_end", "poll_novideo"}

StoredEpisode(f, series) ==
    LET e == FieldsOf(LoadProgress(f).data, series)
    IN [season |-> Get(e, "season", 0), episode |-> Get(e, "episode", 0)]

\* C28: when an episode ends in the play loop (not by quit, user switch or
\* detected auto-navigation) and autoNext is enabled, the loop goes on with
\* the same series and season and episode + 1, and its next iteration
\* opens that episode; when autoNext is disabled play_episodes_loop returns
\* and the stored season and episode of the series are unchanged.
C28_AutoNext ==
    [][/\ (sess.pc = "inner" /\ obs'.step \in OverSteps) =>
             IF sess'.auto_next
             THEN /\ sess'.pc = "outer"
                  /\ sess'.series = sess.series
                  /\ sess'.season = sess.season
                  /\ sess'.episode = sess.episode + 1
             ELSE /\ sess'.pc = "main"
                  /\ StoredEpisode(file', sess.series) = StoredEpisode(file, sess.series)
       /\ (sess.pc = "outer" /\ obs'.step \in {"outer_play", "outer_novideo"}) =>
             page'.url = EpisodeUrl(sess.series, sess.season, sess.episode)]_vars

(* naruto episode 3 is over with autoNext on: the loop is about to open *)
(* episode 4                                                            *)
C28_Witness ==
    /\ obs.step = "poll_end"
    /\ obs.from = EpisodeUrl("naruto", 1, 3)
    /\ sess.auto_next
    /\ sess.pc = "outer"
    /\ sess.episode = 4

-----------------------------------------------------------------------------
(* Resuming: the loops with a user who opens episode pages, on stores    *)
(* with and without an entry for the series                              *)

(* an entry saved without a position *)
NoPositionEntry == DictEntry([season |-> 1, episode |-> 4])

ResumeDisk ==
    {FObj(EmptyMap), FObj([naruto |-> NarutoEntry]), FObj([naruto |-> NoPositionEntry])}

ResumeUrls ==
    UrlInputs \cup {EpisodeUrl("naruto", 2, 3)}

ResumeInit ==
    /\ file \in ResumeDisk
    /\ backup = FAbsent
    /\ now = 0
    /\ ops = 0
    /\ last = [op |-> "init", series |-> "", args |-> NoArgs, pre |-> file,
               ret |-> TRUE, io |-> "ok", t0 |-> 0, res |-> NoRes, again |-> FALSE]
    /\ trace = TraceOff
    /\ settingsFile = FAbsent
    /\ lsSettings = EmptyMap
    /\ page = StartPage
    /\ video = NoVideo
    /\ sess = MainSess
    /\ obs = NoObs

ResumeNext ==
    \/ LoopStep
    \/ \E u \in ResumeUrls, v \in LoadedVideos : Navigates(u, v)
    \/ \E v \in LaterVideos : VideoChanges(v)

SpecResume == ResumeInit /\ [][ResumeNext]_vars

\* C29: when the main loop detects that the user navigated into an episode
\* URL (series, season, episode), the play session is started for that
\* identity at the stored position of the series if the stored season and
\* episode both equal the URL's, and at position 0 otherwise (no entry, or
\* a different season or episode).
C29_ResumeOnlySameEpisode ==
    LET u == page.url
        db == LoadProgress(file).data
        e == IF u.series \in DOMAIN db THEN db[u.series].f ELSE EmptyMap
        same == /\ "season" \in DOMAIN e /\ e["season"] = u.season
                /\ "episode" \in DOMAIN e /\ e["episode"] = u.episode
    IN obs.step = "main_auto" =>
          /\ sess.pc = "outer"
          /\ sess.series = u.series /\ sess.season = u.season /\ sess.episode = u.episode
          /\ sess.position = IF same /\ "position" \in DOMAIN e THEN e["position"] ELSE 0

(* the user opened naruto S1E3, stored at 40 s: the session resumes there *)
C29_Witness ==
    /\ obs.step = "main_auto"
    /\ page.url = EpisodeUrl("naruto", 1, 3)
    /\ sess.position = 40

-----------------------------------------------------------------------------
(* The One Piece script (src/Onepiece/s.toBot.py).  Its progress.json is  *)
(* one object {series, season, episode, position}.  sess holds main's     *)
(* locals (bound: series, season and episode are assigned, which only the *)
(* fresh start does), play_episodes_loop's current_episode and position,  *)
(* and where the script is: "start", "play" (top of the outer loop),      *)
(* "watch" (inner loop) or "done".  obs.from is the episode the inner     *)
(* loop last saved                                                        *)

OnePieceIntroSkip == 320

OnePieceProgress(episode, position) ==
    FObj([series |-> "one-piece", season |-> 1, episode |-> episode,
          position |-> position])

OnePieceStart ==
    [pc |-> "start", bound |-> FALSE, episode |-> 0, current_episode |-> 0,
     position |-> 0]

(* main with stored progress and the answer "Y": lines 205-210 *)
OnePieceResume ==
    /\ sess.pc = "start"
    /\ file.kind = "obj"
    /\ sess' = [sess EXCEPT !.pc = "play",
                            !.current_episode = file.data["episode"],
                            !.position = file.data["position"]]
    /\ obs' = [obs EXCEPT !.step = "op_resume"]
    /\ UNCHANGED <<storeVars, settingsVars, ops, last, trace, page, video>>

(* main without progress, or with the answer "n": the user starts an    *)
(* episode and main parses its URL into series, season, episode         *)
OnePieceFresh(episode) ==
    /\ sess.pc = "start"
    /\ sess' = [sess EXCEPT !.pc = "play", !.bound = TRUE, !.episode = episode,
                            !.current_episode = episode, !.position = 0]
    /\ obs' = [obs EXCEPT !.step = "op_fresh"]
    /\ UNCHANGED <<storeVars, settingsVars, ops, last, trace, page, video>>

(* the top of play_episodes_loop's outer loop: the episode's video, moved *)
(* to the resume position or past the intro                               *)
OnePiecePlay(v) ==
    /\ sess.pc = "play"
    /\ video' = [v EXCEPT !.cur = Min(v.duration,
                                      10 * (IF sess.position > 0 THEN sess.position
                                            ELSE OnePieceIntroSkip))]
    /\ sess' = [sess EXCEPT !.pc = "watch", !.position = 0]
    /\ obs' = [obs EXCEPT !.step = "op_play"]
    /\ UNCHANGED <<storeVars, settingsVars, ops, last, trace, page>>

(* one iteration of the inner loop: save, then leave for the next episode *)
(* when 3 s or less remain; reachable: navigate_to_episode does not raise *)
OnePiecePoll(reachable) ==
    /\ sess.pc = "watch"
    /\ sess.current_episode < MaxEpisode
    /\ file' = OnePieceProgress(sess.current_episode, video.cur \div 10)
    /\ obs' = [obs EXCEPT !.step = "op_poll",
                          !.from = EpisodeUrl("one-piece", 1, sess.current_episode)]
    /\ sess' = IF video.duration - video.cur <= 30
               THEN [sess EXCEPT !.current_episode = @ + 1,
                                 !.pc = IF reachable THEN "play" ELSE "done"]
               ELSE sess
    /\ UNCHANGED <<backup, now, settingsVars, ops, last, trace, page, video>>

OnePieceVideoPlays(v) ==
    /\ sess.pc = "watch"
    /\ v.cur > video.cur
    /\ video' = v
    /\ obs' = [obs EXCEPT !.step = "event"]
    /\ UNCHANGED <<storeVars, settingsVars, ops, last, trace, page, sess>>

(* what the KeyboardInterrupt handler leaves in the file: with main's    *)
(* locals unbound save_progress is not reached (UnboundLocalError)       *)
InterruptOp(f, s, v) ==
    IF s.bound THEN OnePieceProgress(s.episode, v.cur \div 10) ELSE f

(* Ctrl-C during playback: except KeyboardInterrupt in main *)
OnePieceInterrupt ==
    /\ sess.pc = "watch"
    /\ file' = InterruptOp(file, sess, video)
    /\ sess' = [sess EXCEPT !.pc = "done"]
    /\ obs' = [obs EXCEPT !.step = "op_interrupt"]
    /\ UNCHANGED <<backup, now, settingsVars, ops, last, trace, page, video>>

OnePieceVideos == {Video(14000, 0)}

OnePieceLater == {Video(14000, 7000), Video(14000, 13980)}

OnePieceInit ==
    /\ file \in {FAbsent, OnePieceProgress(3, 40)}
    /\ backup = FAbsent
    /\ now = 0
    /\ ops = 0
    /\ last = [op |-> "init", series |-> "", args |-> NoArgs, pre |-> file,
               ret |-> TRUE, io |-> "ok", t0 |-> 0, res |-> NoRes, again |-> FALSE]
    /\ trace = TraceOff
    /\ settingsFile = FAbsent
    /\ lsSettings = EmptyMap
    /\ page = StartPage
    /\ video = NoVideo
    /\ sess = OnePieceStart
    /\ obs = NoObs

OnePieceNext ==
    \/ OnePieceResume
    \/ \E e \in {1, 2} : OnePieceFresh(e)
    \/ \E v \in OnePieceVideos : OnePiecePlay(v)
    \/ \E reachable \in BOOLEAN : OnePiecePoll(reachable)
    \/ \E v \in OnePieceLater : OnePieceVideoPlays(v)
    \/ OnePieceInterrupt

SpecOnePiece == OnePieceInit /\ [][OnePieceNext]_vars

\* C30: in the One Piece script, after a user interrupt during playback of
\* an episode the loop has already saved, the progress file records the
\* episode that was playing when the interrupt occurred, whether the
\* session was resumed or started fresh and however many episodes were
\* auto-advanced: the recorded episode never goes backwards.
C30_InterruptKeepsEpisode ==
    (obs.step = "op_interrupt" /\ obs.from.episode = sess.current_episode)
        => /\ file.kind = "obj"
           /\ file.data["episode"] = sess.current_episode

====
